---- MODULE Spec2Model ----
(***************************************************************************)
(* A model of MyVec<T> (src/src/collection/vec.rs), its buffer manager     *)
(* MyRawVec<T> (vec/raw_vec.rs), the raw value iterator RawValIter<T>      *)
(* (vec/raw_val_iter.rs), the draining iterator Drain<T> (vec/drain.rs)    *)
(* and the range normalizer (slice.rs).                                    *)
(*                                                                         *)
(* Memory is modelled slot by slot.  A slot holds the bits of an element,  *)
(* a token <<id, value>>, or Garbage when it was never written.  Every     *)
(* element ever created has its own id, so that a second read or a second  *)
(* destruction of the same element is visible: ptr::read and ptr::copy     *)
(* leave the source bits in place, exactly as the machine does.            *)
(*                                                                         *)
(* Pointers into the buffer are byte offsets from the buffer's base.       *)
(* Element destructors do not panic in this specification.                 *)
(***************************************************************************)
EXTENDS Integers, Sequences, FiniteSets, TLC

\* ------------------------------------------------------------------ bounds
\* Width of usize in bits (the platform word, scaled down).
WordBits == 6
\* Number of elements that may ever be created (pushed, inserted, cloned).
MaxElems == 3
\* The same for the runs of pushes, pops and drains alone.
MaxSeqElems == 5
\* Largest capacity argument: with_capacity(0..MaxCapArg), and the largest
\* `additional` passed to reserve (besides usize::MAX).
MaxCapArg == 2
\* Elements that may be created in a run of all operations together.
MaxAllElems == 2
\* Elements that may be created in a run of extend and collect.
MaxExtElems == 3
\* Elements that may be created in a run with panicking destructors.
MaxDtorElems == 3
\* Elements that may be created in a run that ends in an IntoIter.
MaxIterElems == 3
\* Elements that may be created in a run over either element size.
MaxAnySizeElems == 3
\* Elements that may be created in a run with failing allocations, and the
\* size of an element there: twice a capacity of 2 is too large.
MaxAllocElems == 4
\* Elements that may be created in a run with conversions to and from Vec.
MaxConvElems == 2
\* Elements that may be created in a run of a MyVec beside an InplaceVec.
MaxPairElems == 3
\* Elements that may be created in a run of a MyVec and its clone.
MaxCloneElems == 3
\* Largest const generic N of an InplaceVec<N, T>.
MaxInplaceN == 2
\* Longest MyVec whose length bounds a range.
MaxRangeElems == 3
\* Elements that may be created in a run that compares two MyVecs, and the
\* longest slice appended in one.
MaxEqElems == 4
MaxEqSlice == 2

USIZE_MAX == 2 ^ WordBits - 1
ISIZE_MAX == 2 ^ (WordBits - 1) - 1
\* Elements that may be created in a run that fills a MyVec of zero-sized
\* elements: one more than its capacity.
MaxZstElems == ISIZE_MAX + 1

\* ------------------------------------------------------------------ state
VARIABLES
    elem_size,  \* mem::size_of::<T>()
    budget,     \* how many elements this run may create
    cap,        \* MyVec.buf.cap
    len,        \* MyVec.len
    mem,        \* the slots of the allocation MyVec.buf.ptr points to
    drain,      \* the live Drain: before_len, after_len, old_len, iter
    other,      \* the MyVec that clone() returned: cap, len, mem
    pc,         \* where the program is: "live", "drain", "dropping",
                \* "shifted", "cloned", "clearing", "iter" (it became
                \* an IntoIter), "iter_drop", "dropped" (the MyVec or
                \* the IntoIter was destroyed), "aborted", "ub"
    nextId,     \* id of the next element to be created
    gone,       \* ghost: ids handed to the caller by value or destroyed
    leaked,     \* ghost: ids left in the buffer by a forgotten Drain
    bad,        \* ghost: forbidden memory events that have happened
    last,       \* ghost: the last public call, its arguments and result
    pre,        \* ghost: len, cap and elements when the last call began
    prev,       \* ghost: the call before the last, when it was an insert
    pp,         \* ghost: the current run of pushes followed by pops
    yf,         \* ghost: what the Drain yielded from the front, in order
    yb,         \* ghost: what the Drain yielded from the back, in order
    dd,         \* ghost: what Drain::drop destroyed, in order
    clr,        \* the clear() under way: next slot, end, whether a
                \* destructor has panicked
    into,       \* the live IntoIter: the cursors of its RawValIter
    heap        \* the allocation: who owns it, how often it was released

vars == <<elem_size, budget, cap, len, mem, drain, other, pc, nextId, gone,
          leaked, bad, last, pre, prev, pp, yf, yb, dd, clr, into, heap>>

\* ---------------------------------------------------------------- helpers
Garbage == <<0, 0>>
IdOf(t) == t[1]
ValOf(t) == t[2]

\* The bits of slots [from, from + n) (0-based), Garbage outside the buffer.
SlotAt(m, i) == IF i < Len(m) THEN m[i + 1] ELSE Garbage
Slots(m, from, n) == [k \in 1..n |-> SlotAt(m, from + k - 1)]

\* as_slice(): the logical element sequence, slots [0, len).
Elems == Slots(mem, 0, len)

Snapshot == [len |-> len, cap |-> cap, elems |-> Elems]

NoDrain == [before_len |-> 0, after_len |-> 0, old_len |-> 0,
            start |-> 0, end |-> 0]

NoOther == [cap |-> 0, len |-> 0, mem |-> <<>>]
NoClear == [next |-> 0, end |-> 0, panicked |-> FALSE]
NoIter == [start |-> 0, end |-> 0]

\* No allocation exists: MyRawVec.ptr dangles.
NoHeap == [owner |-> "none", frees |-> 0]

\* What a by-value read (ptr::read, drop_in_place) of slot i does wrong,
\* given the ids g that were already moved out or destroyed.  A zero-sized
\* T has no bits: its values live in no slot, and a read or write through
\* the dangling pointer touches no memory.
ReadEvents(m, i, g) ==
    IF elem_size = 0 THEN {}
    ELSE IF i >= Len(m) THEN {"oob_read"}
    ELSE IF m[i + 1] = Garbage THEN {"read_uninit"}
    ELSE IF IdOf(m[i + 1]) \in g THEN {"reuse"}
    ELSE {}

\* ptr::write(ptr.add(i), t): the slot's old content is neither read nor
\* dropped.  A write outside the allocation changes no slot of it.
PtrWrite(m, i, t) == IF i < Len(m) THEN [m EXCEPT ![i + 1] = t] ELSE m
WriteEvents(m, i) ==
    IF elem_size # 0 /\ i >= Len(m) THEN {"oob_write"} ELSE {}

\* A faulty ptr::copy: source and destination swapped.
PtrCopySwapped(m, src, dst, n) ==
    [k \in 1..Len(m) |->
        IF src < k /\ k <= src + n THEN SlotAt(m, dst + (k - 1 - src))
        ELSE m[k]]

\* ptr::copy(base.add(src), base.add(dst), n): memmove.
PtrCopy(m, src, dst, n) ==
    [k \in 1..Len(m) |->
        IF dst < k /\ k <= dst + n THEN SlotAt(m, src + (k - 1 - dst))
        ELSE m[k]]
CopyEvents(m, src, dst, n) ==
    IF elem_size # 0 /\ n > 0 /\ (src + n > Len(m) \/ dst + n > Len(m))
    THEN {"oob_copy"}
    ELSE {}

\* ptr::drop_in_place of slots [from, from + n): each slot's destructor runs.
RangeIds(m, from, n) == {IdOf(SlotAt(m, from + k - 1)) : k \in 1..n} \ {0}
DropEvents(m, from, n, g) ==
    UNION {ReadEvents(m, from + k - 1, g) : k \in 1..n}
    \cup (IF \E j, k \in 1..n : j # k /\ SlotAt(m, from + j - 1) # Garbage
                               /\ SlotAt(m, from + j - 1) = SlotAt(m, from + k - 1)
          THEN {"reuse"} ELSE {})

\* -------------------------------------------------------------- MyRawVec
\* Layout::array::<T>(n) is Ok iff the byte size fits in isize::MAX.
\* A faulty Layout::array: every size is accepted.
LayoutAlwaysOk(n, es) == TRUE
LayoutOk(n, es) == n * es <= ISIZE_MAX

\* alloc / realloc: the first min(old, new) slots keep their bits.
Realloc(m, n) == [k \in 1..n |-> IF k <= Len(m) THEN m[k] ELSE Garbage]

\* MyRawVec::try_alloc_nonzeroed after grow / with_capacity / reserve_exact
\* took the capacity from c to c2: alloc::alloc when there was no
\* allocation, alloc::realloc of the one the MyRawVec owns otherwise.
HeapAfter(h, c, c2, es) ==
    IF c2 = c \/ es = 0 THEN h
    ELSE IF c = 0 THEN [owner |-> "vec", frees |-> 0]
    ELSE h

\* A faulty Drop for MyRawVec: dealloc whatever the capacity and size.
RawDropAlways(h, c, es) == [owner |-> "freed", frees |-> h.frees + 1]
\* Drop for MyRawVec: dealloc iff cap != 0 and T is not zero-sized.
RawDrop(h, c, es) ==
    IF c # 0 /\ es # 0 THEN [owner |-> "freed", frees |-> h.frees + 1]
    ELSE h
\* alloc::dealloc of memory that is not a live allocation of the owner.
RawDropEvents(h, c, es, who) ==
    IF RawDrop(h, c, es) # h /\ h.owner # who THEN {"bad_free"} ELSE {}

\* A faulty new: capacity 0 whatever the element size.
RawNewCapZero(es) == 0
\* A faulty handle_alloc_err: a null pointer ends in a panic.
HandleAllocErrPanics(null) == IF null THEN "panic" ELSE "ok"
\* MyRawVec::handle_alloc_err: a null pointer from the allocator goes to
\* alloc::handle_alloc_error, which terminates the process.
HandleAllocErr(null) == IF null THEN "abort" ELSE "ok"

\* MyRawVec::new
RawNewCap(es) == IF es = 0 THEN ISIZE_MAX ELSE 0

\* A faulty with_capacity: nothing is allocated.
RawWithCapacityLazy(capacity, es) ==
    [panic |-> FALSE, cap |-> RawNewCap(es), mem |-> <<>>]
\* MyRawVec::with_capacity
RawWithCapacity(capacity, es) ==
    IF es # 0 /\ capacity > 0
    THEN IF LayoutOk(capacity, es)
         THEN [panic |-> FALSE, cap |-> capacity, mem |-> Realloc(<<>>, capacity)]
         ELSE [panic |-> TRUE, cap |-> 0, mem |-> <<>>]
    ELSE [panic |-> FALSE, cap |-> RawNewCap(es), mem |-> <<>>]

\* A faulty grow: the assert on the element size is missing.
RawGrowNoSizeAssert(c, m, es) ==
    LET new_cap == IF c = 0 THEN 1 ELSE (2 * c) % (USIZE_MAX + 1) IN
    IF c # 0 /\ ~LayoutOk(new_cap, es)
    THEN [panic |-> TRUE, cap |-> c, mem |-> m]
    ELSE [panic |-> FALSE, cap |-> new_cap,
          mem |-> IF es = 0 THEN <<>> ELSE Realloc(m, new_cap)]
\* A faulty grow: one more slot instead of twice as many.
RawGrowByOne(c, m, es) ==
    IF es = 0 THEN [panic |-> TRUE, cap |-> c, mem |-> m]
    ELSE IF ~LayoutOk(c + 1, es) THEN [panic |-> TRUE, cap |-> c, mem |-> m]
    ELSE [panic |-> FALSE, cap |-> c + 1, mem |-> Realloc(m, c + 1)]
\* MyRawVec::grow
RawGrow(c, m, es) ==
    IF es = 0 THEN [panic |-> TRUE, cap |-> c, mem |-> m]
    ELSE LET new_cap == IF c = 0 THEN 1 ELSE 2 * c IN
         IF c # 0 /\ ~LayoutOk(new_cap, es)
         THEN [panic |-> TRUE, cap |-> c, mem |-> m]
         ELSE [panic |-> FALSE, cap |-> new_cap, mem |-> Realloc(m, new_cap)]

\* A faulty reserve_exact: the early return is missing.
RawReserveExactAlways(c, m, exact_cap, es) ==
    IF ~LayoutOk(exact_cap, es) THEN [panic |-> TRUE, cap |-> c, mem |-> m]
    ELSE [panic |-> FALSE, cap |-> exact_cap,
          mem |-> IF es = 0 THEN <<>> ELSE Realloc(m, exact_cap)]
\* MyRawVec::reserve_exact
RawReserveExact(c, m, exact_cap, es) ==
    IF exact_cap <= c THEN [panic |-> FALSE, cap |-> c, mem |-> m]
    ELSE IF ~LayoutOk(exact_cap, es) THEN [panic |-> TRUE, cap |-> c, mem |-> m]
    ELSE [panic |-> FALSE, cap |-> exact_cap,
          mem |-> IF es = 0 THEN <<>> ELSE Realloc(m, exact_cap)]

\* A faulty reserve: asks for `additional` slots in all.
VecReserveAdditionalOnly(c, l, m, additional, es) ==
    IF l + additional > USIZE_MAX \/ l + additional > ISIZE_MAX
    THEN [panic |-> TRUE, cap |-> c, mem |-> m]
    ELSE RawReserveExact(c, m, additional, es)
\* MyVec::reserve: checked_add, the isize::MAX filter, then reserve_exact.
VecReserve(c, l, m, additional, es) ==
    IF l + additional > USIZE_MAX \/ l + additional > ISIZE_MAX
    THEN [panic |-> TRUE, cap |-> c, mem |-> m]
    ELSE RawReserveExact(c, m, l + additional, es)

\* ------------------------------------------------------- slice::range
\* A bound of a RangeBounds<usize>: <<kind, value>>.
Unbounded == <<"Unbounded", 0>>
Included(n) == <<"Included", n>>
Excluded(n) == <<"Excluded", n>>

\* A faulty slice::range: the end is not checked against bounds_end.
SliceRangeNoEndCheck(lower, upper, bounds_end) ==
    LET left == IF lower[1] = "Unbounded" THEN 0
                ELSE IF lower[1] = "Included" THEN lower[2]
                ELSE lower[2] + 1
        right == IF upper[1] = "Unbounded" THEN bounds_end
                 ELSE IF upper[1] = "Included" THEN upper[2] + 1
                 ELSE upper[2]
    IN
    IF left > USIZE_MAX \/ right > USIZE_MAX \/ left > right
    THEN [panic |-> TRUE, start |-> 0, end |-> 0]
    ELSE [panic |-> FALSE, start |-> left, end |-> right]

\* A faulty slice::range: an inclusive end is taken as it is.
SliceRangeEndAsIs(lower, upper, bounds_end) ==
    LET left_overflow == lower[1] = "Excluded" /\ lower[2] + 1 > USIZE_MAX
        left == IF lower[1] = "Unbounded" THEN 0
                ELSE IF lower[1] = "Included" THEN lower[2]
                ELSE lower[2] + 1
        right == IF upper[1] = "Unbounded" THEN bounds_end ELSE upper[2]
    IN
    IF left_overflow \/ left > right \/ right > bounds_end
    THEN [panic |-> TRUE, start |-> 0, end |-> 0]
    ELSE [panic |-> FALSE, start |-> left, end |-> right]

\* collection::slice::range(range, ..bounds_end)
SliceRange(lower, upper, bounds_end) ==
    LET left_overflow == lower[1] = "Excluded" /\ lower[2] + 1 > USIZE_MAX
        left == IF lower[1] = "Unbounded" THEN 0
                ELSE IF lower[1] = "Included" THEN lower[2]
                ELSE lower[2] + 1
        right_overflow == upper[1] = "Included" /\ upper[2] + 1 > USIZE_MAX
        right == IF upper[1] = "Unbounded" THEN bounds_end
                 ELSE IF upper[1] = "Included" THEN upper[2] + 1
                 ELSE upper[2]
    IN
    IF left_overflow \/ right_overflow \/ left > right \/ right > bounds_end
    THEN [panic |-> TRUE, start |-> 0, end |-> 0]
    ELSE [panic |-> FALSE, start |-> left, end |-> right]

\* ---------------------------------------------------------- RawValIter
\* A faulty new: `end` by pointer offset whatever the element size.
RawValIterNewByOffset(ptr, slice_len, es) ==
    [start |-> ptr, end |-> ptr + slice_len * es]

\* RawValIter::new(slice), the slice starting `ptr` bytes into the buffer.
RawValIterNew(ptr, slice_len, es) ==
    [start |-> ptr,
     end |-> IF es = 0 THEN ptr + slice_len
             ELSE IF slice_len = 0 THEN ptr
             ELSE ptr + slice_len * es]

\* ExactSizeIterator::len
RawValIterLen(it, es) ==
    (it.end - it.start) \div (IF es = 0 THEN 1 ELSE es)

\* A faulty next: the cursors are not compared, it always yields.
RawValIterNextNoEndCheck(it, es) ==
    IF es = 0
    THEN [some |-> TRUE, start |-> it.start + 1, end |-> it.end, slot |-> 0]
    ELSE [some |-> TRUE, start |-> it.start + es, end |-> it.end,
          slot |-> it.start \div es]

\* RawValIter::size_hint: the exact length as lower and upper bound.
RawValIterSizeHint(it, es) ==
    LET l == RawValIterLen(it, es) IN <<l, <<"Some", l>>>>

\* RawValIter::next: whether it yields, the cursors after it, the slot read.
RawValIterNext(it, es) ==
    IF it.start = it.end
    THEN [some |-> FALSE, start |-> it.start, end |-> it.end, slot |-> 0]
    ELSE IF es = 0
    THEN [some |-> TRUE, start |-> it.start + 1, end |-> it.end, slot |-> 0]
    ELSE [some |-> TRUE, start |-> it.start + es, end |-> it.end,
          slot |-> it.start \div es]

\* A faulty next_back: reads the slot at `end` before moving `end`.
RawValIterNextBackReadsEnd(it, es) ==
    IF it.start = it.end
    THEN [some |-> FALSE, start |-> it.start, end |-> it.end, slot |-> 0]
    ELSE IF es = 0
    THEN [some |-> TRUE, start |-> it.start, end |-> it.end - 1, slot |-> 0]
    ELSE [some |-> TRUE, start |-> it.start, end |-> it.end - es,
          slot |-> it.end \div es]

\* A faulty next_back: end steps down before the cursors are compared.
RawValIterNextBackStepsFirst(it, es) ==
    LET end == it.end - (IF es = 0 THEN 1 ELSE es) IN
    IF it.start = it.end
    THEN [some |-> FALSE, start |-> it.start, end |-> end, slot |-> 0]
    ELSE [some |-> TRUE, start |-> it.start, end |-> end,
          slot |-> IF es = 0 THEN 0 ELSE end \div es]

\* RawValIter::next_back
RawValIterNextBack(it, es) ==
    IF it.start = it.end
    THEN [some |-> FALSE, start |-> it.start, end |-> it.end, slot |-> 0]
    ELSE IF es = 0
    THEN [some |-> TRUE, start |-> it.start, end |-> it.end - 1, slot |-> 0]
    ELSE [some |-> TRUE, start |-> it.start, end |-> it.end - es,
          slot |-> (it.end - es) \div es]

\* ----------------------------------------------------------------- calls
Call(op, idx, val, ret, ok) ==
    [op |-> op, idx |-> idx, end |-> 0, val |-> val, ret |-> ret, ok |-> ok,
     valid |-> TRUE]

\* ghost: what the next call remembers of this one.
NoPrev == [op |-> "none", idx |-> 0, val |-> Garbage, base |-> <<>>]
PrevOf == IF last.op = "insert" /\ last.ok
          THEN [op |-> "insert", idx |-> last.idx, val |-> last.val,
                base |-> pre.elems]
          ELSE IF last.op = "clear" /\ ~last.ok
          THEN [op |-> "clear_panic", idx |-> 0, val |-> Garbage,
                base |-> pre.elems]
          ELSE NoPrev

\* ghost: no run of pushes and pops is under way.
NoRun == [base |-> <<>>, pushed |-> <<>>, popped |-> <<>>, cap0 |-> 0]

\* The frame of a call that is no part of a drain.
NoDrainFrame == /\ drain' = NoDrain
                /\ yf' = <<>> /\ yb' = <<>> /\ dd' = <<>>
                /\ prev' = PrevOf
                /\ clr' = NoClear
                /\ into' = NoIter

Gone == gone \cup leaked

\* After an action, undefined behaviour ends the run.
After(events) == IF events = {} THEN "live" ELSE "ub"

\* MyVec::new / MyVec::with_capacity
InitSized(b, sizes) ==
    /\ elem_size \in sizes
    /\ budget = b
    /\ \E n \in 0..MaxCapArg :
          LET r == RawWithCapacity(n, elem_size) IN
          /\ ~r.panic
          /\ cap = r.cap
          /\ mem = r.mem
          /\ last = Call(IF n = 0 THEN "new" ELSE "with_capacity", n, Garbage, <<>>, TRUE)
    /\ len = 0
    /\ drain = NoDrain
    /\ other = NoOther
    /\ pc = "live"
    /\ nextId = 1
    /\ gone = {} /\ leaked = {} /\ bad = {}
    /\ pre = [len |-> 0, cap |-> 0, elems |-> <<>>]
    /\ prev = NoPrev
    /\ pp = NoRun
    /\ yf = <<>> /\ yb = <<>> /\ dd = <<>>
    /\ clr = NoClear
    /\ into = NoIter
    /\ heap = HeapAfter(NoHeap, 0, cap, elem_size)

\* One element type of two bytes.
InitWith(b) == InitSized(b, {2})

Init == InitWith(MaxElems)

InitSeq == InitWith(MaxSeqElems)

InitAll == InitWith(MaxAllElems)

InitDtor == InitWith(MaxDtorElems)

InitIter == InitWith(MaxIterElems)

InitEq == InitWith(MaxEqElems)

\* A zero-sized element type, or one of two bytes.
InitConv == InitSized(MaxConvElems, {0, 2})

\* One element type of two bytes.
InitConvSized == InitWith(MaxConvElems)
\* A new MyVec; the InplaceVec beside it is made by the first step.
InitPair == InitWith(MaxPairElems)

\* One element type of eight bytes.
InitAlloc == InitSized(MaxAllocElems, {8})

InitRange == InitWith(MaxRangeElems)

\* A MyVec that will be cloned.
InitClone == InitWith(MaxCloneElems)

\* A zero-sized element type only.
InitZst == InitSized(MaxZstElems, {0})

\* A zero-sized element type, or one of two bytes.
InitAnySize == InitSized(MaxAnySizeElems, {0, 2})

\* ghost: the run of pushes and pops after a push of elem / a pop.  cap0
\* is the capacity asked of with_capacity when the run starts right after
\* it, and 0 for any other run.
RunPush(elem) ==
    IF pp.popped = <<>> /\ pp.pushed # <<>>
    THEN [pp EXCEPT !.pushed = Append(@, elem)]
    ELSE [base |-> Elems, pushed |-> <<elem>>, popped |-> <<>>,
          cap0 |-> IF last.op = "with_capacity" THEN last.idx ELSE 0]
RunPop(t) ==
    IF Len(pp.popped) < Len(pp.pushed)
    THEN [pp EXCEPT !.popped = Append(@, t)]
    ELSE NoRun

\* Where push stores the element, given the length; where pop reads it,
\* given the decremented length.
\* A faulty push: stores over the last element.
PushSlotLast(l) == IF l = 0 THEN 0 ELSE l - 1
PushSlot(l) == l
\* A faulty pop: takes the first element.
PopSlotFront(new_len) == 0
\* A faulty pop: reads at the length before the decrement.
PopSlotOldLen(new_len) == new_len + 1
PopSlot(new_len) == new_len

\* MyVec::push
VecPush ==
    /\ pc = "live" /\ nextId <= budget
    /\ LET elem == <<nextId, nextId>>
           g == IF len = cap THEN RawGrow(cap, mem, elem_size)
                ELSE [panic |-> FALSE, cap |-> cap, mem |-> mem]
       IN
       /\ nextId' = nextId + 1
       /\ pre' = Snapshot
       /\ IF g.panic
          THEN \* unwinding drops the argument
               /\ gone' = gone \cup {IdOf(elem)}
               /\ last' = Call("push", len, elem, <<>>, FALSE)
               /\ pp' = NoRun
               /\ UNCHANGED <<cap, len, mem, bad, pc>>
          ELSE /\ cap' = g.cap
               /\ mem' = PtrWrite(g.mem, PushSlot(len), elem)
               /\ len' = len + 1
               /\ bad' = bad \cup WriteEvents(g.mem, PushSlot(len))
               /\ pc' = After(WriteEvents(g.mem, PushSlot(len)))
               /\ last' = Call("push", len, elem, <<>>, TRUE)
               /\ pp' = RunPush(elem)
               /\ UNCHANGED gone
    /\ NoDrainFrame
    /\ UNCHANGED <<elem_size, budget, other, leaked>>
    /\ heap' = HeapAfter(heap, cap, cap', elem_size)

\* MyVec::pop
VecPop ==
    /\ pc = "live"
    /\ pre' = Snapshot
    /\ IF len = 0
       THEN /\ last' = Call("pop", 0, Garbage, <<>>, TRUE)
            /\ pp' = NoRun
            /\ UNCHANGED <<len, gone, bad, pc>>
       ELSE LET ev == ReadEvents(mem, PopSlot(len - 1), Gone)
                t == SlotAt(mem, PopSlot(len - 1))
            IN
            /\ len' = len - 1
            /\ gone' = gone \cup {IdOf(t)}
            /\ bad' = bad \cup ev
            /\ pc' = After(ev)
            /\ last' = Call("pop", len - 1, Garbage, <<t>>, TRUE)
            /\ pp' = RunPop(t)
    /\ NoDrainFrame
    /\ UNCHANGED <<elem_size, budget, other, cap, mem, nextId, leaked, heap>>

\* How many elements insert shifts right, and remove shifts left.
\* Faulty counts: one element too few is shifted.
InsertShiftCountShort(l, index) == IF l > index THEN l - index - 1 ELSE 0
RemoveShiftCountShort(new_len, index) ==
    IF new_len > index THEN new_len - index - 1 ELSE 0
InsertShiftCount(l, index) == l - index
RemoveShiftCount(new_len, index) == new_len - index

\* A faulty remove: the result is read after the shift.
RemoveResultAfterShift(m, index, new_len) ==
    SlotAt(PtrCopy(m, index + 1, index, new_len - index), index)
\* What remove returns: slot index, read before the shift.
RemoveResult(m, index, new_len) == SlotAt(m, index)

\* MyVec::insert
VecInsert(index) ==
    /\ pc = "live" /\ nextId <= budget
    /\ LET elem == <<nextId, nextId>> IN
       /\ nextId' = nextId + 1
       /\ pre' = Snapshot
       /\ IF ~(index <= len)
          THEN \* assert!(index <= self.len): unwinding drops the argument
               /\ gone' = gone \cup {IdOf(elem)}
               /\ last' = Call("insert", index, elem, <<>>, FALSE)
               /\ UNCHANGED <<cap, len, mem, bad, pc>>
          ELSE LET g == IF len = cap THEN RawGrow(cap, mem, elem_size)
                        ELSE [panic |-> FALSE, cap |-> cap, mem |-> mem]
               IN
               IF g.panic
               THEN /\ gone' = gone \cup {IdOf(elem)}
                    /\ last' = Call("insert", index, elem, <<>>, FALSE)
                    /\ UNCHANGED <<cap, len, mem, bad, pc>>
               ELSE LET n == InsertShiftCount(len, index)
                        ev == CopyEvents(g.mem, index, index + 1, n)
                              \cup WriteEvents(g.mem, index)
                        shifted == PtrCopy(g.mem, index, index + 1, n)
                    IN
                    /\ cap' = g.cap
                    /\ mem' = PtrWrite(shifted, index, elem)
                    /\ len' = len + 1
                    /\ bad' = bad \cup ev
                    /\ pc' = After(ev)
                    /\ last' = Call("insert", index, elem, <<>>, TRUE)
                    /\ UNCHANGED gone
    /\ NoDrainFrame
    /\ pp' = NoRun
    /\ UNCHANGED <<elem_size, budget, other, leaked>>
    /\ heap' = HeapAfter(heap, cap, cap', elem_size)

\* MyVec::remove
VecRemove(index) ==
    /\ pc = "live"
    /\ pre' = Snapshot
    /\ IF ~(index < len)
       THEN \* assert!(index < self.len)
            /\ last' = Call("remove", index, Garbage, <<>>, FALSE)
            /\ UNCHANGED <<len, mem, gone, bad, pc>>
       ELSE LET new_len == len - 1
                result == RemoveResult(mem, index, new_len)
                n == RemoveShiftCount(new_len, index)
                ev == ReadEvents(mem, index, Gone)
                      \cup CopyEvents(mem, index + 1, index, n)
            IN
            /\ len' = new_len
            /\ mem' = PtrCopy(mem, index + 1, index, n)
            /\ gone' = gone \cup {IdOf(result)}
            /\ bad' = bad \cup ev
            /\ pc' = After(ev)
            /\ last' = Call("remove", index, Garbage, <<result>>, TRUE)
    /\ NoDrainFrame
    /\ pp' = NoRun
    /\ UNCHANGED <<elem_size, budget, other, cap, nextId, leaked, heap>>

\* MyVec::clear
VecClear ==
    /\ pc = "live"
    /\ pre' = Snapshot
    /\ LET ev == DropEvents(mem, 0, len, Gone) IN
       /\ len' = 0
       /\ gone' = gone \cup RangeIds(mem, 0, len)
       /\ bad' = bad \cup ev
       /\ pc' = After(ev)
    /\ last' = Call("clear", 0, Garbage, <<>>, TRUE)
    /\ NoDrainFrame
    /\ pp' = NoRun
    /\ UNCHANGED <<elem_size, budget, other, cap, mem, nextId, leaked, heap>>

\* A faulty clear: the length is left as it was.
ClearGuardLenKept(old_len) == old_len
\* The length clear() sets before it calls drop_in_place.
ClearGuardLen(old_len) == 0

\* MyVec::clear, in steps, with element destructors that may panic.
\* clear takes the slice, sets the length, and calls drop_in_place.
ClearBegin ==
    /\ pc = "live"
    /\ pre' = Snapshot
    /\ clr' = [next |-> 0, end |-> len, panicked |-> FALSE]
    /\ len' = ClearGuardLen(len)
    /\ pc' = "clearing"
    /\ last' = Call("clear", 0, Garbage, <<>>, TRUE)
    /\ drain' = NoDrain
    /\ yf' = <<>> /\ yb' = <<>> /\ dd' = <<>>
    /\ prev' = PrevOf
    /\ pp' = NoRun
    /\ UNCHANGED <<elem_size, budget, other, cap, mem, nextId, gone, leaked, bad,
                   into, heap>>

\* drop_in_place of a slice: the destructor of the next element runs and
\* may panic; the rest is still destroyed while unwinding, and a second
\* panic aborts the process.
ClearDropStep(panics) ==
    /\ pc = "clearing" /\ clr.next < clr.end
    /\ LET ev == DropEvents(mem, clr.next, 1, Gone) IN
       /\ gone' = gone \cup RangeIds(mem, clr.next, 1)
       /\ dd' = Append(dd, SlotAt(mem, clr.next))
       /\ bad' = bad \cup ev
       /\ pc' = IF ev # {} THEN "ub"
                ELSE IF panics /\ clr.panicked THEN "aborted"
                ELSE "clearing"
    /\ clr' = [clr EXCEPT !.next = @ + 1, !.panicked = @ \/ panics]
    /\ UNCHANGED <<elem_size, budget, cap, len, mem, drain, other, nextId, leaked,
                   last, pre, prev, pp, yf, yb, into, heap>>

\* drop_in_place is through: clear returns, or the panic leaves it.
ClearEnd ==
    /\ pc = "clearing" /\ clr.next = clr.end
    /\ pc' = "live"
    /\ last' = [last EXCEPT !.ok = ~clr.panicked]
    /\ clr' = NoClear
    /\ UNCHANGED <<elem_size, budget, cap, len, mem, drain, other, nextId, gone,
                   leaked, bad, pre, prev, pp, yf, yb, dd, into, heap>>

\* MyVec::reserve
VecReserveCall(additional) ==
    /\ pc = "live"
    /\ pre' = Snapshot
    /\ LET r == VecReserve(cap, len, mem, additional, elem_size) IN
       /\ cap' = r.cap
       /\ mem' = r.mem
       /\ last' = Call("reserve", additional, Garbage, <<>>, ~r.panic)
    /\ NoDrainFrame
    /\ pp' = NoRun
    /\ UNCHANGED <<elem_size, budget, other, len, pc, nextId, gone, leaked, bad>>
    /\ heap' = HeapAfter(heap, cap, cap', elem_size)

\* Drop for MyVec, then Drop for MyRawVec
VecDrop ==
    /\ pc = "live"
    /\ pre' = Snapshot
    /\ LET ev == DropEvents(mem, 0, len, Gone)
                 \cup RawDropEvents(heap, cap, elem_size, "vec")
       IN
       /\ gone' = gone \cup RangeIds(mem, 0, len)
       /\ bad' = bad \cup ev
       /\ pc' = IF ev = {} THEN "dropped" ELSE "ub"
    /\ last' = Call("drop", 0, Garbage, <<>>, TRUE)
    /\ NoDrainFrame
    /\ pp' = NoRun
    /\ UNCHANGED <<elem_size, budget, other, cap, len, mem, nextId, leaked>>
    /\ heap' = RawDrop(heap, cap, elem_size)

\* ----------------------------------------------------- allocation failure
\* Where a call stands after handle_alloc_err saw the allocator's answer.
AfterAlloc(null) ==
    IF HandleAllocErr(null) = "abort" THEN "aborted" ELSE "live"

\* MyVec::push on a full buffer, the allocator returning null to grow
VecPushAllocFails ==
    /\ pc = "live" /\ nextId <= budget
    /\ len = cap
    /\ ~RawGrow(cap, mem, elem_size).panic
    /\ nextId' = nextId + 1
    /\ pre' = Snapshot
    /\ pc' = AfterAlloc(TRUE)
    /\ last' = Call("push", len, <<nextId, nextId>>, <<>>, FALSE)
    /\ NoDrainFrame
    /\ pp' = NoRun
    /\ UNCHANGED <<elem_size, budget, other, cap, len, mem, gone, leaked, bad,
                   heap>>

\* MyVec::reserve, the allocator returning null to reserve_exact
VecReserveAllocFails(additional) ==
    /\ pc = "live"
    /\ LET r == VecReserve(cap, len, mem, additional, elem_size) IN
       ~r.panic /\ r.cap # cap
    /\ pre' = Snapshot
    /\ pc' = AfterAlloc(TRUE)
    /\ last' = Call("reserve", additional, Garbage, <<>>, FALSE)
    /\ NoDrainFrame
    /\ pp' = NoRun
    /\ UNCHANGED <<elem_size, budget, other, cap, len, mem, nextId, gone, leaked,
                   bad, heap>>

\* v = MyVec::with_capacity(capacity), the allocator returning null or
\* not: when the new MyVec is built, the old one is dropped and replaced.
VecWithCapacityCall(capacity, null) ==
    /\ pc = "live"
    /\ null => (elem_size # 0 /\ capacity > 0)
    /\ pre' = Snapshot
    /\ LET r == RawWithCapacity(capacity, elem_size)
           ev == DropEvents(mem, 0, len, Gone)
                 \cup RawDropEvents(heap, cap, elem_size, "vec")
       IN
       IF r.panic
       THEN /\ last' = Call("with_capacity", capacity, Garbage, <<>>, FALSE)
            /\ UNCHANGED <<cap, len, mem, gone, bad, pc, heap>>
       ELSE IF null
       THEN /\ last' = Call("with_capacity", capacity, Garbage, <<>>, FALSE)
            /\ pc' = AfterAlloc(TRUE)
            /\ UNCHANGED <<cap, len, mem, gone, bad, heap>>
       ELSE /\ last' = Call("with_capacity", capacity, Garbage, <<>>, TRUE)
            /\ gone' = gone \cup RangeIds(mem, 0, len)
            /\ bad' = bad \cup ev
            /\ pc' = After(ev)
            /\ cap' = r.cap
            /\ mem' = r.mem
            /\ len' = 0
            /\ heap' = HeapAfter(NoHeap, 0, r.cap, elem_size)
    /\ NoDrainFrame
    /\ pp' = NoRun
    /\ UNCHANGED <<elem_size, budget, other, nextId, leaked>>

\* ------------------------------------------------------------------ Drain
DrainCall(start, end, ok, valid) ==
    [op |-> "drain", idx |-> start, end |-> end, val |-> Garbage,
     ret |-> <<>>, ok |-> ok, valid |-> valid]

\* ghost: whether the requested range lies in 0..n: its start does not
\* exceed its end, nor its end n.
RangeValid(lower, upper, n) ==
    LET s == IF lower[1] = "Excluded" THEN lower[2] + 1 ELSE lower[2]
        e == IF upper[1] = "Unbounded" THEN n
             ELSE IF upper[1] = "Included" THEN upper[2] + 1 ELSE upper[2]
    IN s <= e /\ e <= n

\* A faulty hole begin: the tail is moved to the front of the buffer.
DrainHoleBeginZero(d) == 0
\* Drop for Drain: where the kept tail lies, and the length restored.
DrainHoleBegin(d) == d.before_len
\* A faulty hole end: the tail is taken to start where the MyVec ended.
DrainHoleEndOldLen(d) == d.old_len
\* A faulty hole end: the tail is taken to start where the hole starts.
DrainHoleEndAtBegin(d) == d.before_len
DrainHoleEnd(d) == d.old_len - d.after_len
\* A faulty Drain::drop: the length from before the drain is restored.
DrainRestoredOldLen(d) == d.old_len
\* The length Drain::drop sets: the kept head and the kept tail.
DrainRestoredLen(d) == d.before_len + d.after_len

\* A faulty drain: the length is left as it was.
DrainGuardLenKept(old_len) == old_len
\* The length MyVec::drain leaves in the MyVec while the Drain lives.
DrainGuardLen(old_len) == 0

\* MyVec::drain
VecDrain(lower, upper) ==
    /\ pc = "live"
    /\ pre' = Snapshot
    /\ LET range == SliceRange(lower, upper, len) IN
       IF range.panic
       THEN /\ last' = DrainCall(0, 0, FALSE, RangeValid(lower, upper, len))
            /\ UNCHANGED <<len, drain, pc>>
       ELSE LET iter == RawValIterNew(range.start * elem_size,
                                      range.end - range.start, elem_size)
            IN
            /\ drain' = [before_len |-> range.start,
                         after_len |-> len - range.end,
                         old_len |-> len,
                         start |-> iter.start, end |-> iter.end]
            /\ len' = DrainGuardLen(len)
            /\ pc' = "drain"
            /\ last' = DrainCall(range.start, range.end, TRUE,
                                  RangeValid(lower, upper, len))
    /\ yf' = <<>> /\ yb' = <<>> /\ dd' = <<>>
    /\ prev' = PrevOf
    /\ pp' = NoRun
    /\ UNCHANGED <<elem_size, budget, other, cap, mem, nextId, gone, leaked, bad, clr, into, heap>>

\* Drain::next, called by the owner of the Drain
DrainNext ==
    /\ pc = "drain"
    /\ LET r == RawValIterNext(drain, elem_size)
           ev == ReadEvents(mem, r.slot, Gone)
       IN
       IF r.some
       THEN /\ drain' = [drain EXCEPT !.start = r.start, !.end = r.end]
            /\ yf' = Append(yf, SlotAt(mem, r.slot))
            /\ gone' = gone \cup {IdOf(SlotAt(mem, r.slot))}
            /\ bad' = bad \cup ev
            /\ pc' = IF ev = {} THEN "drain" ELSE "ub"
       ELSE UNCHANGED <<drain, yf, gone, bad, pc>>
    /\ UNCHANGED <<elem_size, budget, other, cap, len, mem, nextId, leaked, last, pre, prev, pp, yb, dd, clr, into, heap>>

\* Drain::next_back, called by the owner of the Drain
DrainNextBack ==
    /\ pc = "drain"
    /\ LET r == RawValIterNextBack(drain, elem_size)
           ev == ReadEvents(mem, r.slot, Gone)
       IN
       IF r.some
       THEN /\ drain' = [drain EXCEPT !.start = r.start, !.end = r.end]
            /\ yb' = Append(yb, SlotAt(mem, r.slot))
            /\ gone' = gone \cup {IdOf(SlotAt(mem, r.slot))}
            /\ bad' = bad \cup ev
            /\ pc' = IF ev = {} THEN "drain" ELSE "ub"
       ELSE UNCHANGED <<drain, yb, gone, bad, pc>>
    /\ UNCHANGED <<elem_size, budget, other, cap, len, mem, nextId, leaked, last, pre, prev, pp, yf, dd, clr, into, heap>>

\* Drop for Drain, `for _ in &mut *self {}`: one iteration that gets Some
\* and drops it.
DrainDropStep ==
    /\ pc \in {"drain", "dropping"}
    /\ LET r == RawValIterNext(drain, elem_size)
           ev == ReadEvents(mem, r.slot, Gone)
       IN
       /\ r.some
       /\ drain' = [drain EXCEPT !.start = r.start, !.end = r.end]
       /\ dd' = Append(dd, SlotAt(mem, r.slot))
       /\ gone' = gone \cup {IdOf(SlotAt(mem, r.slot))}
       /\ bad' = bad \cup ev
       /\ pc' = IF ev = {} THEN "dropping" ELSE "ub"
    /\ UNCHANGED <<elem_size, budget, other, cap, len, mem, nextId, leaked, last, pre, prev, pp, yf, yb, clr, into, heap>>

\* Drop for Drain: the loop gets None, then ptr::copy(hole_end, hole_begin,
\* after_len).
DrainDropShift ==
    /\ pc \in {"drain", "dropping"}
    /\ ~RawValIterNext(drain, elem_size).some
    /\ LET hole_begin == DrainHoleBegin(drain)
           hole_end == DrainHoleEnd(drain)
           ev == CopyEvents(mem, hole_end, hole_begin, drain.after_len)
       IN
       /\ mem' = PtrCopy(mem, hole_end, hole_begin, drain.after_len)
       /\ bad' = bad \cup ev
       /\ pc' = IF ev = {} THEN "shifted" ELSE "ub"
    /\ UNCHANGED <<elem_size, budget, other, cap, len, drain, nextId, gone, leaked, last, pre,
                   prev, pp, yf, yb, dd, clr, into, heap>>

\* Drop for Drain: set_len(before_len + after_len)
DrainDropSetLen ==
    /\ pc = "shifted"
    /\ len' = DrainRestoredLen(drain)
    /\ drain' = NoDrain
    /\ pc' = "live"
    /\ last' = [last EXCEPT !.op = "drain_drop"]
    /\ UNCHANGED <<elem_size, budget, other, cap, mem, nextId, gone, leaked, bad, pre, prev, pp,
                   yf, yb, dd, clr, into, heap>>

\* A faulty unwinding: a guard restores the length though the tail was not
\* moved.
DrainUnwoundLenRestored(l, d) == d.before_len + d.after_len
\* The length a panic leaves when it unwinds out of Drop for Drain: set_len
\* is not reached, the length is what drain set.
DrainUnwoundLen(l, d) == l

\* Drop for Drain: the loop gets an element whose destructor panics; the
\* panic leaves drop before ptr::copy and set_len, and what the MyVec held
\* and was not yet moved out leaks.
DrainDropPanic ==
    /\ pc \in {"drain", "dropping"}
    /\ LET r == RawValIterNext(drain, elem_size)
           ev == ReadEvents(mem, r.slot, Gone)
           destroyed == gone \cup {IdOf(SlotAt(mem, r.slot))}
       IN
       /\ r.some
       /\ dd' = Append(dd, SlotAt(mem, r.slot))
       /\ gone' = destroyed
       /\ leaked' = leaked \cup (RangeIds(mem, 0, drain.old_len) \ destroyed)
       /\ bad' = bad \cup ev
       /\ pc' = After(ev)
    /\ len' = DrainUnwoundLen(len, drain)
    /\ drain' = NoDrain
    /\ last' = [last EXCEPT !.op = "drain_drop", !.ok = FALSE]
    /\ UNCHANGED <<elem_size, budget, other, cap, mem, nextId, pre, prev, pp,
                   yf, yb, clr, into, heap>>

\* mem::forget(drain): the Drain's destructor never runs
DrainForget ==
    /\ pc = "drain"
    /\ leaked' = leaked \cup (RangeIds(mem, 0, drain.old_len) \ gone)
    /\ drain' = NoDrain
    /\ pc' = "live"
    /\ last' = [last EXCEPT !.op = "drain_forget"]
    /\ UNCHANGED <<elem_size, budget, other, cap, len, mem, nextId, gone, bad, pre, prev, pp,
                   yf, yb, dd, clr, into, heap>>

\* The ranges a caller may pass to drain: a..b, a..=b, .., ..b, a.., and
\* the two whose bound + 1 overflows.
DrainRanges ==
    {<<Included(a), Excluded(b)>> : a \in 0..(len + 1), b \in 0..(len + 1)}
    \cup {<<Included(0), Included(b)>> : b \in 0..len}
    \cup {<<Unbounded, Unbounded>>}
    \cup {<<Unbounded, Excluded(b)>> : b \in 0..(len + 1)}
    \cup {<<Included(a), Unbounded>> : a \in 0..(len + 1)}
    \cup {<<Unbounded, Included(USIZE_MAX)>>, <<Excluded(USIZE_MAX), Unbounded>>}

\* The bounds a caller may pass to slice::range, up to one past the length
\* and at usize::MAX.
RangeArgs ==
    {Unbounded}
    \cup {Included(k) : k \in (0..(len + 1)) \cup {USIZE_MAX}}
    \cup {Excluded(k) : k \in (0..(len + 1)) \cup {USIZE_MAX}}

\* collection::slice::range(range, ..len), called on its own
SliceRangeCall(lower, upper) ==
    /\ pc = "live"
    /\ pre' = Snapshot
    /\ LET r == SliceRange(lower, upper, len) IN
       last' = Call("range", 0, Garbage,
                    <<lower, upper, r.panic, r.start, r.end>>, ~r.panic)
    /\ NoDrainFrame
    /\ pp' = NoRun
    /\ UNCHANGED <<elem_size, budget, other, cap, len, mem, nextId, gone, leaked,
                   bad, pc, heap>>

\* --------------------------------------------------------------- IntoIter
\* RawValIter::start_mut: the front cursor as a *mut T.
StartMut(i) == i.start

\* IntoIterator for MyVec: the cursors are taken over the slice, the
\* buffer is read out of the MyVec and the MyVec is forgotten.
VecIntoIter ==
    /\ pc = "live"
    /\ pre' = Snapshot
    /\ LET iter == RawValIterNew(0, len, elem_size) IN
       into' = [start |-> iter.start, end |-> iter.end]
    /\ heap' = [heap EXCEPT !.owner = IF @ = "vec" THEN "iter" ELSE @]
    /\ pc' = "iter"
    /\ last' = Call("into_iter", 0, Garbage, <<>>, TRUE)
    /\ drain' = NoDrain
    /\ yf' = <<>> /\ yb' = <<>> /\ dd' = <<>>
    /\ prev' = PrevOf
    /\ pp' = NoRun
    /\ UNCHANGED <<elem_size, budget, other, cap, len, mem, nextId, gone, leaked,
                   bad, clr>>

\* IntoIter::next
IterNext ==
    /\ pc = "iter"
    /\ LET r == RawValIterNext(into, elem_size)
           ev == ReadEvents(mem, r.slot, Gone)
       IN
       IF r.some
       THEN /\ into' = [start |-> r.start, end |-> r.end]
            /\ yf' = Append(yf, SlotAt(mem, r.slot))
            /\ gone' = gone \cup {IdOf(SlotAt(mem, r.slot))}
            /\ bad' = bad \cup ev
            /\ pc' = IF ev = {} THEN "iter" ELSE "ub"
            /\ last' = [last EXCEPT !.op = "iter_next", !.ret = <<SlotAt(mem, r.slot)>>]
       ELSE /\ last' = [last EXCEPT !.op = "iter_next", !.ret = <<>>]
            /\ UNCHANGED <<into, yf, gone, bad, pc>>
    /\ UNCHANGED <<elem_size, budget, other, cap, len, mem, drain, nextId, leaked,
                   pre, prev, pp, yb, dd, clr, heap>>

\* IntoIter::next_back
IterNextBack ==
    /\ pc = "iter"
    /\ LET r == RawValIterNextBack(into, elem_size)
           ev == ReadEvents(mem, r.slot, Gone)
       IN
       IF r.some
       THEN /\ into' = [start |-> r.start, end |-> r.end]
            /\ yb' = Append(yb, SlotAt(mem, r.slot))
            /\ gone' = gone \cup {IdOf(SlotAt(mem, r.slot))}
            /\ bad' = bad \cup ev
            /\ pc' = IF ev = {} THEN "iter" ELSE "ub"
            /\ last' = [last EXCEPT !.op = "iter_next_back", !.ret = <<SlotAt(mem, r.slot)>>]
       ELSE /\ last' = [last EXCEPT !.op = "iter_next_back", !.ret = <<>>]
            /\ UNCHANGED <<into, yb, gone, bad, pc>>
    /\ UNCHANGED <<elem_size, budget, other, cap, len, mem, drain, nextId, leaked,
                   pre, prev, pp, yf, dd, clr, heap>>

\* A faulty Drop for IntoIter: drop_in_place of the whole former slice.
IterDropWholeSlice ==
    /\ pc = "iter"
    /\ LET ev == DropEvents(mem, 0, len, Gone) IN
       /\ dd' = Slots(mem, 0, len)
       /\ gone' = gone \cup RangeIds(mem, 0, len)
       /\ bad' = bad \cup ev
       /\ pc' = IF ev = {} THEN "iter_drop" ELSE "ub"
    /\ last' = [last EXCEPT !.op = "iter_drop", !.ret = <<>>]
    /\ UNCHANGED <<elem_size, budget, other, cap, len, mem, drain, nextId, leaked,
                   pre, prev, pp, yf, yb, clr, into, heap>>

\* Drop for IntoIter: drop_in_place of the len() elements from start_mut().
IterDropElems ==
    /\ pc = "iter"
    /\ LET n == RawValIterLen(into, elem_size)
           from == IF elem_size = 0 THEN 0 ELSE StartMut(into) \div elem_size
           ev == DropEvents(mem, from, n, Gone)
       IN
       /\ dd' = Slots(mem, from, n)
       /\ gone' = gone \cup RangeIds(mem, from, n)
       /\ bad' = bad \cup ev
       /\ pc' = IF ev = {} THEN "iter_drop" ELSE "ub"
    /\ last' = [last EXCEPT !.op = "iter_drop", !.ret = <<>>]
    /\ UNCHANGED <<elem_size, budget, other, cap, len, mem, drain, nextId, leaked,
                   pre, prev, pp, yf, yb, clr, into, heap>>

\* Drop for IntoIter, then its field _buf: Drop for MyRawVec.
IterDropBuf ==
    /\ pc = "iter_drop"
    /\ LET ev == RawDropEvents(heap, cap, elem_size, "iter") IN
       /\ bad' = bad \cup ev
       /\ pc' = IF ev = {} THEN "dropped" ELSE "ub"
    /\ heap' = RawDrop(heap, cap, elem_size)
    /\ UNCHANGED <<elem_size, budget, other, cap, len, mem, drain, nextId, gone,
                   leaked, last, pre, prev, pp, yf, yb, dd, clr, into>>

\* ------------------------------------------------- extend, clone, clone_from
\* The lower bound of size_hint() an iterator with r items left reports.
SizeHint(mode, r) ==
    IF mode = "exact" THEN r ELSE IF mode = "low" THEN r \div 2 ELSE 0

\* A faulty sum: the second summand is forgotten.
SaturatingAddFirstOnly(a, b) == a
\* usize::saturating_add
SaturatingAdd(a, b) == IF a + b > USIZE_MAX THEN USIZE_MAX ELSE a + b

\* The elements of the slice a caller passes: values 11, 12, ...
SliceVal(i) == 10 + i

\* MyVec::extend_from_iter: the iterator has r items left.  st is cap, len,
\* mem, the next id, the events so far, and whether reserve panicked.
RECURSIVE ExtendFromIter(_, _, _, _)
ExtendFromIter(st, r, mode, es) ==
    IF r = 0 \/ st.panic THEN st
    ELSE LET elem == <<st.next, st.next>>
             rs == IF st.len = st.cap
                   THEN VecReserve(st.cap, st.len, st.mem,
                                   SaturatingAdd(SizeHint(mode, r - 1), 1), es)
                   ELSE [panic |-> FALSE, cap |-> st.cap, mem |-> st.mem]
         IN
         IF rs.panic
         THEN [st EXCEPT !.panic = TRUE, !.next = st.next + 1]
         ELSE ExtendFromIter(
                  [cap |-> rs.cap, len |-> st.len + 1,
                   mem |-> PtrWrite(rs.mem, st.len, elem),
                   next |-> st.next + 1,
                   ev |-> st.ev \cup WriteEvents(rs.mem, st.len),
                   panic |-> FALSE],
                  r - 1, mode, es)

\* Extend<T> for MyVec
VecExtend(k, mode) ==
    /\ pc = "live" /\ nextId + k - 1 <= budget
    /\ pre' = Snapshot
    /\ LET r == ExtendFromIter([cap |-> cap, len |-> len, mem |-> mem,
                                next |-> nextId, ev |-> {}, panic |-> FALSE],
                               k, mode, elem_size)
       IN
       /\ cap' = r.cap /\ len' = r.len /\ mem' = r.mem
       /\ nextId' = r.next
       /\ gone' = IF r.panic THEN gone \cup {r.next - 1} ELSE gone
       /\ bad' = bad \cup r.ev
       /\ pc' = After(r.ev)
       /\ last' = Call("extend", k, Garbage, <<>>, ~r.panic)
    /\ NoDrainFrame
    /\ pp' = NoRun
    /\ UNCHANGED <<elem_size, budget, other, leaked>>
    /\ heap' = HeapAfter(heap, cap, cap', elem_size)

\* FromIterator::from_iter: the MyVec collected from an iterator of k items.
InitFromIter(b) ==
    /\ elem_size \in {2}
    /\ budget = b
    /\ \E k \in 0..b, mode \in {"exact", "low", "zero"} :
          LET raw == RawWithCapacity(SizeHint(mode, k), elem_size)
              r == ExtendFromIter([cap |-> raw.cap, len |-> 0, mem |-> raw.mem,
                                   next |-> 1, ev |-> {}, panic |-> FALSE],
                                  k, mode, elem_size)
          IN
          /\ ~raw.panic /\ ~r.panic
          /\ cap = r.cap /\ len = r.len /\ mem = r.mem
          /\ nextId = r.next
          /\ bad = r.ev
          /\ pc = After(r.ev)
          /\ last = Call("from_iter", k, Garbage, <<>>, TRUE)
    /\ drain = NoDrain
    /\ other = NoOther
    /\ gone = {} /\ leaked = {}
    /\ pre = [len |-> 0, cap |-> 0, elems |-> <<>>]
    /\ prev = NoPrev
    /\ pp = NoRun
    /\ yf = <<>> /\ yb = <<>> /\ dd = <<>>
    /\ clr = NoClear
    /\ into = NoIter
    /\ heap = HeapAfter(NoHeap, 0, cap, elem_size)

InitExt == InitWith(MaxExtElems) \/ InitFromIter(MaxExtElems)

\* MyVec::unchecked_extend_from_slice, and the loop of clone_from: clones of
\* the n elements vals are written at from, from + 1, ...
RECURSIVE WriteClones(_, _, _, _)
WriteClones(m, from, vals, id) ==
    IF vals = <<>> THEN m
    ELSE WriteClones(PtrWrite(m, from, <<id, Head(vals)>>), from + 1,
                     Tail(vals), id + 1)
WriteClonesEvents(m, from, n) ==
    UNION {WriteEvents(m, from + k - 1) : k \in 1..n}

\* The capacity extend_from_slice asks reserve for.
ExtendFromSliceAdditional(needs, remain) == needs - remain

\* MyVec::extend_from_slice
VecExtendFromSlice(needs) ==
    /\ pc = "live" /\ nextId + needs - 1 <= budget
    /\ pre' = Snapshot
    /\ LET remain == cap - len
           rs == IF needs > remain
                 THEN VecReserve(cap, len, mem,
                                 ExtendFromSliceAdditional(needs, remain),
                                 elem_size)
                 ELSE [panic |-> FALSE, cap |-> cap, mem |-> mem]
           vals == [i \in 1..needs |-> SliceVal(i)]
           ev == WriteClonesEvents(rs.mem, len, needs)
       IN
       IF rs.panic
       THEN /\ last' = Call("extend_from_slice", needs, Garbage, <<>>, FALSE)
            /\ UNCHANGED <<cap, len, mem, nextId, bad, pc>>
       ELSE /\ cap' = rs.cap
            /\ mem' = WriteClones(rs.mem, len, vals, nextId)
            /\ len' = len + needs
            /\ nextId' = nextId + needs
            /\ bad' = bad \cup ev
            /\ pc' = After(ev)
            /\ last' = Call("extend_from_slice", needs, Garbage, <<>>, TRUE)
    /\ NoDrainFrame
    /\ pp' = NoRun
    /\ UNCHANGED <<elem_size, budget, other, gone, leaked>>
    /\ heap' = HeapAfter(heap, cap, cap', elem_size)

\* The capacity clone_from asks reserve for.
CloneFromAdditional(source_len, c) == source_len - c

\* Clone::clone_from, the source a MyVec of source_len elements
VecCloneFrom(source_len) ==
    /\ pc = "live" /\ nextId + source_len - 1 <= budget
    /\ pre' = Snapshot
    /\ LET rs == IF cap < source_len
                 THEN VecReserve(cap, len, mem,
                                 CloneFromAdditional(source_len, cap), elem_size)
                 ELSE [panic |-> FALSE, cap |-> cap, mem |-> mem]
           vals == [i \in 1..source_len |-> SliceVal(i)]
           ev == DropEvents(rs.mem, 0, len, Gone)
                 \cup WriteClonesEvents(rs.mem, 0, source_len)
       IN
       IF rs.panic
       THEN /\ last' = Call("clone_from", source_len, Garbage, <<>>, FALSE)
            /\ UNCHANGED <<cap, len, mem, nextId, gone, bad, pc>>
       ELSE /\ cap' = rs.cap
            /\ gone' = gone \cup RangeIds(rs.mem, 0, len)
            /\ mem' = WriteClones(rs.mem, 0, vals, nextId)
            /\ len' = source_len
            /\ nextId' = nextId + source_len
            /\ bad' = bad \cup ev
            /\ pc' = After(ev)
            /\ last' = Call("clone_from", source_len, Garbage, <<>>, TRUE)
    /\ NoDrainFrame
    /\ pp' = NoRun
    /\ UNCHANGED <<elem_size, budget, other, leaked>>
    /\ heap' = HeapAfter(heap, cap, cap', elem_size)

\* A faulty clone: the clone gets the capacity of its source.
CloneCapacityOfSource(l, c) == c
\* The capacity clone asks MyRawVec::with_capacity for: self.len.
CloneCapacity(l, c) == l

\* Clone::clone
VecClone ==
    /\ pc = "live" /\ nextId + len - 1 <= budget
    /\ pre' = Snapshot
    /\ LET raw == RawWithCapacity(CloneCapacity(len, cap), elem_size)
           vals == [i \in 1..len |-> ValOf(SlotAt(mem, i - 1))]
           ev == WriteClonesEvents(raw.mem, 0, len)
       IN
       IF raw.panic
       THEN /\ last' = Call("clone", 0, Garbage, <<>>, FALSE)
            /\ UNCHANGED <<other, nextId, bad, pc>>
       ELSE /\ other' = [cap |-> raw.cap, len |-> len,
                         mem |-> WriteClones(raw.mem, 0, vals, nextId)]
            /\ nextId' = nextId + len
            /\ bad' = bad \cup ev
            /\ pc' = IF ev = {} THEN "cloned" ELSE "ub"
            /\ last' = Call("clone", 0, Garbage, <<>>, TRUE)
    /\ NoDrainFrame
    /\ pp' = NoRun
    /\ UNCHANGED <<elem_size, budget, cap, len, mem, gone, leaked, heap>>

\* Drop for MyVec, of the clone
CloneDrop ==
    /\ pc = "cloned"
    /\ LET ev == DropEvents(other.mem, 0, other.len, Gone) IN
       /\ gone' = gone \cup RangeIds(other.mem, 0, other.len)
       /\ bad' = bad \cup ev
       /\ pc' = After(ev)
    /\ other' = NoOther
    /\ UNCHANGED <<elem_size, budget, cap, len, mem, drain, nextId, leaked, last, pre,
                   prev, pp, yf, yb, dd, clr, into, heap>>

\* The allocation of the MyVec held in `other`.
OtherHeap ==
    IF "heap" \in DOMAIN other THEN other.heap
    ELSE HeapAfter(NoHeap, 0, other.cap, elem_size)

\* mem::swap(&mut v, &mut other): the calls that follow are made on what
\* was `other`.
VecSwap ==
    /\ pc \in {"live", "cloned"} /\ other # NoOther
    /\ pre' = Snapshot
    /\ cap' = other.cap /\ len' = other.len /\ mem' = other.mem
    /\ heap' = OtherHeap
    /\ other' = [cap |-> cap, len |-> len, mem |-> mem, heap |-> heap]
    /\ pc' = "live"
    /\ last' = Call("swap", 0, Garbage, <<>>, TRUE)
    /\ NoDrainFrame
    /\ pp' = NoRun
    /\ UNCHANGED <<elem_size, budget, nextId, gone, leaked, bad>>

\* Drop for MyVec, of `other`, while v is live or after v was destroyed
OtherDrop ==
    /\ pc \in {"live", "dropped"} /\ other # NoOther
    /\ LET ev == DropEvents(other.mem, 0, other.len, Gone)
                 \cup RawDropEvents(OtherHeap, other.cap, elem_size, "vec")
       IN
       /\ gone' = gone \cup RangeIds(other.mem, 0, other.len)
       /\ bad' = bad \cup ev
       /\ pc' = IF ev = {} THEN pc ELSE "ub"
    /\ other' = NoOther
    /\ last' = Call("drop_other", 0, Garbage, <<>>, TRUE)
    /\ UNCHANGED <<elem_size, budget, cap, len, mem, drain, nextId, leaked, pre,
                   prev, pp, yf, yb, dd, clr, into, heap>>

\* ------------------------------------------------ conversion to and from Vec
\* Vec::capacity of the native Vec: usize::MAX for a zero-sized T, whatever
\* capacity it was built from.
NativeCapacity(c, es) == IF es = 0 THEN USIZE_MAX ELSE c

\* MyRawVec::from_raw_parts(ptr, capacity): the capacity is stored as given.
RawFromRawParts(capacity) == capacity

\* MyVec::from_raw_parts(ptr, length, capacity)
VecFromRawParts(m, length, capacity) ==
    [cap |-> RawFromRawParts(capacity), len |-> length, mem |-> m]

\* From<MyVec<T>> for Vec<T>: the MyVec goes into a ManuallyDrop and the
\* native Vec is built from its pointer, length and capacity.
VecIntoNative ==
    /\ pc = "live"
    /\ pre' = Snapshot
    /\ other' = [cap |-> cap, len |-> len, mem |-> mem]
    /\ heap' = [heap EXCEPT !.owner = IF @ = "vec" THEN "native" ELSE @]
    /\ pc' = "native"
    /\ last' = Call("into_vec", 0, Garbage, <<>>, TRUE)
    /\ NoDrainFrame
    /\ pp' = NoRun
    /\ UNCHANGED <<elem_size, budget, cap, len, mem, nextId, gone, leaked, bad>>

\* From<Vec<T>> for MyVec<T>: the native Vec goes into a ManuallyDrop and
\* the MyVec is built from as_mut_ptr(), len() and capacity().
VecFromNative ==
    /\ pc = "native"
    /\ pre' = [len |-> other.len,
               cap |-> NativeCapacity(other.cap, elem_size),
               elems |-> Slots(other.mem, 0, other.len)]
    /\ LET v == VecFromRawParts(other.mem, other.len,
                                NativeCapacity(other.cap, elem_size))
       IN
       /\ cap' = v.cap
       /\ len' = v.len
       /\ mem' = v.mem
    /\ other' = NoOther
    /\ heap' = [heap EXCEPT !.owner = IF @ = "native" THEN "vec" ELSE @]
    /\ pc' = "live"
    /\ last' = Call("from_vec", 0, Garbage, <<>>, TRUE)
    /\ NoDrainFrame
    /\ pp' = NoRun
    /\ UNCHANGED <<elem_size, budget, nextId, gone, leaked, bad>>

\* Drop for the native Vec: its elements, then its buffer.
NativeDrop ==
    /\ pc = "native"
    /\ pre' = [len |-> other.len,
               cap |-> NativeCapacity(other.cap, elem_size),
               elems |-> Slots(other.mem, 0, other.len)]
    /\ LET ev == DropEvents(other.mem, 0, other.len, Gone)
                 \cup RawDropEvents(heap, other.cap, elem_size, "native")
       IN
       /\ gone' = gone \cup RangeIds(other.mem, 0, other.len)
       /\ bad' = bad \cup ev
       /\ pc' = IF ev = {} THEN "dropped" ELSE "ub"
    /\ heap' = RawDrop(heap, other.cap, elem_size)
    /\ last' = Call("drop_vec", 0, Garbage, <<>>, TRUE)
    /\ NoDrainFrame
    /\ pp' = NoRun
    /\ UNCHANGED <<elem_size, budget, other, cap, len, mem, nextId, leaked>>

\* ------------------------------------------------------ equality, ordering
\* Deref for MyVec: as_slice(), the values of slots [0, len).
Deref(v) == [i \in 1..v.len |-> ValOf(SlotAt(v.mem, i - 1))]

\* PartialEq for [T]: equal lengths and equal elements.
SliceEq(s, t) ==
    /\ Len(s) = Len(t)
    /\ \A i \in 1..Len(s) : s[i] = t[i]

\* Ord for [T]: the first unequal pair of elements decides, then the lengths.
RECURSIVE SliceCmp(_, _)
SliceCmp(s, t) ==
    IF s = <<>> \/ t = <<>>
    THEN (IF Len(s) < Len(t) THEN "Less"
          ELSE IF Len(s) > Len(t) THEN "Greater" ELSE "Equal")
    ELSE IF Head(s) < Head(t) THEN "Less"
    ELSE IF Head(s) > Head(t) THEN "Greater"
    ELSE SliceCmp(Tail(s), Tail(t))

\* A faulty eq: the capacities are compared as well.
VecEqWithCapacity(a, b) == a.cap = b.cap /\ SliceEq(Deref(a), Deref(b))
\* PartialEq for MyVec
VecEq(a, b) == SliceEq(Deref(a), Deref(b))

\* PartialOrd / Ord for MyVec
VecCmp(a, b) == SliceCmp(Deref(a), Deref(b))

\* The MyVec at hand, as a value.
Self == [cap |-> cap, len |-> len, mem |-> mem]

\* let other = mem::replace(&mut v, MyVec::with_capacity(n)): the MyVec is
\* set aside as `other`, and a new one takes its place.
VecSetAside(n) ==
    /\ pc = "live" /\ other = NoOther
    /\ pre' = Snapshot
    /\ LET r == RawWithCapacity(n, elem_size) IN
       /\ ~r.panic
       /\ cap' = r.cap
       /\ mem' = r.mem
    /\ len' = 0
    /\ other' = Self
    /\ last' = Call(IF n = 0 THEN "new" ELSE "with_capacity", n, Garbage, <<>>, TRUE)
    /\ NoDrainFrame
    /\ pp' = NoRun
    /\ UNCHANGED <<elem_size, budget, nextId, gone, leaked, bad, pc>>
    /\ heap' = HeapAfter(NoHeap, 0, cap', elem_size)

\* v == other
VecEqCall ==
    /\ pc = "live"
    /\ pre' = Snapshot
    /\ last' = Call("eq", 0, Garbage, <<VecEq(Self, other)>>, TRUE)
    /\ NoDrainFrame
    /\ pp' = NoRun
    /\ UNCHANGED <<elem_size, budget, other, cap, len, mem, nextId, gone, leaked,
                   bad, pc, heap>>

\* v.cmp(&other)
VecCmpCall ==
    /\ pc = "live"
    /\ pre' = Snapshot
    /\ last' = Call("cmp", 0, Garbage, <<VecCmp(Self, other)>>, TRUE)
    /\ NoDrainFrame
    /\ pp' = NoRun
    /\ UNCHANGED <<elem_size, budget, other, cap, len, mem, nextId, gone, leaked,
                   bad, pc, heap>>

\* ------------------------------------------------------------- InplaceVec
\* An InplaceVec<N, T> is held in `other` while a MyVec runs beside it:
\* cap is the const generic N, mem the array buf, len the field len.  The
\* fields start .. old_len are those of its Drain (or begin, end of its
\* IntoIter); yf, yb, dd, gone, bad are the ghosts of the MyVec, kept apart
\* for the InplaceVec; ok tells whether its last call returned.

\* InplaceVec::new
InplaceNew(n) ==
    [cap |-> n, len |-> 0, mem |-> [k \in 1..n |-> Garbage],
     start |-> 0, end |-> 0, before_len |-> 0, after_len |-> 0, old_len |-> 0,
     st |-> "live", yf |-> <<>>, yb |-> <<>>, dd |-> <<>>,
     gone |-> {}, bad |-> {}, ok |-> TRUE, seen |-> <<>>]

\* InplaceVec::capacity
InplaceCapacity(v) == v.cap

\* A faulty overflow_check: a full InplaceVec passes.
OverflowCheckOffByOne(v) == v.len > v.cap
\* InplaceVec::overflow_check: whether it panics.
OverflowCheck(v) == v.len >= v.cap

\* InplaceVec::push
InplacePush(v, value) ==
    IF OverflowCheck(v)
    THEN [v EXCEPT !.ok = FALSE, !.gone = @ \cup {IdOf(value)}]
    ELSE [v EXCEPT !.mem = PtrWrite(v.mem, v.len, value),
                   !.len = v.len + 1,
                   !.bad = @ \cup WriteEvents(v.mem, v.len),
                   !.ok = TRUE]

\* InplaceVec::pop
InplacePop(v) ==
    IF v.len = 0 THEN [v EXCEPT !.ok = TRUE]
    ELSE [v EXCEPT !.len = v.len - 1,
                   !.gone = @ \cup {IdOf(SlotAt(v.mem, v.len - 1))},
                   !.bad = @ \cup ReadEvents(v.mem, v.len - 1, v.gone),
                   !.ok = TRUE]

\* InplaceVec::insert
InplaceInsert(v, index, value) ==
    IF OverflowCheck(v) \/ ~(index <= v.len)
    THEN [v EXCEPT !.ok = FALSE, !.gone = @ \cup {IdOf(value)}]
    ELSE LET n == v.len - index
             shifted == PtrCopy(v.mem, index, index + 1, n)
         IN [v EXCEPT !.mem = PtrWrite(shifted, index, value),
                      !.len = v.len + 1,
                      !.bad = @ \cup CopyEvents(v.mem, index, index + 1, n)
                                \cup WriteEvents(v.mem, index),
                      !.ok = TRUE]

\* Drop for InplaceVec
InplaceDrop(v) ==
    [v EXCEPT !.st = "dropped",
              !.gone = @ \cup RangeIds(v.mem, 0, v.len),
              !.bad = @ \cup DropEvents(v.mem, 0, v.len, v.gone),
              !.ok = TRUE]

\* InplaceVec::drain
InplaceDrain(v, lower, upper) ==
    LET old_len == v.len
        range == SliceRange(lower, upper, old_len)
    IN IF range.panic
       THEN [v EXCEPT !.ok = FALSE]
       ELSE [v EXCEPT !.len = 0,
                      !.start = range.start, !.end = range.end,
                      !.before_len = range.start,
                      !.after_len = old_len - range.end,
                      !.old_len = old_len,
                      !.st = "drain",
                      !.yf = <<>>, !.yb = <<>>, !.dd = <<>>,
                      !.ok = TRUE]

\* Iterator::next of the InplaceVec's Drain and of its IntoIter: both read
\* buf[start] and step start, Drain unless start >= end, IntoIter unless
\* begin == end.
InplaceIterNext(v) ==
    IF (IF v.st = "drain" THEN v.start >= v.end ELSE v.start = v.end)
    THEN [v EXCEPT !.ok = TRUE]
    ELSE [v EXCEPT !.start = v.start + 1,
                   !.yf = Append(@, SlotAt(v.mem, v.start)),
                   !.gone = @ \cup {IdOf(SlotAt(v.mem, v.start))},
                   !.bad = @ \cup ReadEvents(v.mem, v.start, v.gone),
                   !.ok = TRUE]

\* A faulty next_back: buf[end] is read before end steps down.
InplaceIterNextBackReadsEnd(v) ==
    IF (IF v.st = "drain" THEN v.start >= v.end ELSE v.start = v.end)
    THEN [v EXCEPT !.ok = TRUE]
    ELSE [v EXCEPT !.end = v.end - 1,
                   !.yb = Append(@, SlotAt(v.mem, v.end)),
                   !.gone = @ \cup {IdOf(SlotAt(v.mem, v.end))},
                   !.ok = TRUE]
\* DoubleEndedIterator::next_back of both: end steps down, buf[end] is read.
InplaceIterNextBack(v) ==
    IF (IF v.st = "drain" THEN v.start >= v.end ELSE v.start = v.end)
    THEN [v EXCEPT !.ok = TRUE]
    ELSE [v EXCEPT !.end = v.end - 1,
                   !.yb = Append(@, SlotAt(v.mem, v.end - 1)),
                   !.gone = @ \cup {IdOf(SlotAt(v.mem, v.end - 1))},
                   !.bad = @ \cup ReadEvents(v.mem, v.end - 1, v.gone),
                   !.ok = TRUE]

\* ExactSizeIterator::len of both
InplaceIterLen(v) == v.end - v.start

\* Drop for the InplaceVec's Drain: the rest of the range is yielded and
\* destroyed, the tail moved down to before_len, the length set.
InplaceDrainDrop(v) ==
    LET n == IF v.start >= v.end THEN 0 ELSE v.end - v.start
        hole_begin == v.before_len
        hole_end == v.old_len - v.after_len
    IN [v EXCEPT !.dd = Slots(v.mem, v.start, n),
                 !.start = v.start + n,
                 !.gone = @ \cup RangeIds(v.mem, v.start, n),
                 !.mem = PtrCopy(v.mem, hole_end, hole_begin, v.after_len),
                 !.bad = @ \cup DropEvents(v.mem, v.start, n, v.gone)
                           \cup CopyEvents(v.mem, hole_end, hole_begin,
                                           v.after_len),
                 !.len = v.before_len + v.after_len,
                 !.st = "live",
                 !.ok = TRUE]

\* IntoIterator::into_iter for InplaceVec
InplaceIntoIter(v) ==
    [v EXCEPT !.start = 0, !.end = v.len,
              !.st = "iter",
              !.yf = <<>>, !.yb = <<>>, !.dd = <<>>,
              !.ok = TRUE]

\* Drop for the InplaceVec's IntoIter
InplaceIterDrop(v) ==
    LET n == InplaceIterLen(v) IN
    [v EXCEPT !.dd = Slots(v.mem, v.start, n),
              !.gone = @ \cup RangeIds(v.mem, v.start, n),
              !.bad = @ \cup DropEvents(v.mem, v.start, n, v.gone),
              !.st = "dropped",
              !.ok = TRUE]

\* What the InplaceVec has seen of the MyVec's run: the last call, the
\* state it was made in, and how many elements the iterator has yielded.
Stamp == <<last, pre, Len(yf), Len(yb)>>
Paired == other # NoOther
Diverged == Paired /\ other.st = "diverged"
\* The InplaceVec has made every call the MyVec has, and has not panicked
\* where the MyVec did not: there the common run ends.
Synced == Paired /\ other.st # "diverged" /\ other.seen = Stamp

\* InplaceVec::new beside a new MyVec
IpNew(n) ==
    /\ other = NoOther /\ pc = "live" /\ last.op \in {"new", "with_capacity"}
    /\ other' = [InplaceNew(n) EXCEPT !.seen = Stamp]
    /\ UNCHANGED <<elem_size, budget, cap, len, mem, drain, pc, nextId, gone,
                   leaked, bad, last, pre, prev, pp, yf, yb, dd, clr, into,
                   heap>>

\* The InplaceVec makes the call the MyVec has just made, with what that
\* call was given; a panic the MyVec did not have ends the common run.
IpCall ==
    /\ Paired /\ ~Synced /\ other.st # "diverged"
    /\ LET v == CASE last.op = "push" -> InplacePush(other, last.val)
                  [] last.op = "pop" -> InplacePop(other)
                  [] last.op = "insert" ->
                        InplaceInsert(other, last.idx, last.val)
                  [] last.op = "drop" -> InplaceDrop(other)
                  [] last.op = "drain" /\ other.st = "live" ->
                        InplaceDrain(other, Included(last.idx),
                                     Excluded(last.end))
                  [] last.op = "drain" /\ other.st = "drain"
                        /\ Len(yf) > Len(other.yf) -> InplaceIterNext(other)
                  [] last.op = "drain" /\ other.st = "drain"
                        /\ Len(yf) = Len(other.yf) ->
                        InplaceIterNextBack(other)
                  [] last.op = "drain_drop" -> InplaceDrainDrop(other)
                  [] last.op = "into_iter" -> InplaceIntoIter(other)
                  [] last.op = "iter_next" -> InplaceIterNext(other)
                  [] last.op = "iter_next_back" -> InplaceIterNextBack(other)
                  [] last.op = "iter_drop" -> InplaceIterDrop(other)
       IN other' = [v EXCEPT !.seen = Stamp,
                             !.st = IF ~v.ok /\ last.ok THEN "diverged"
                                    ELSE v.st]
    /\ UNCHANGED <<elem_size, budget, cap, len, mem, drain, pc, nextId, gone,
                   leaked, bad, last, pre, prev, pp, yf, yb, dd, clr, into,
                   heap>>

\* The operations on one MyVec that take no other sequence.
NextCore ==
    \/ VecPush
    \/ VecPop
    \/ \E index \in 0..(len + 1) : VecInsert(index)
    \/ \E index \in 0..(len + 1) : VecRemove(index)
    \/ VecClear
    \/ \E additional \in (0..MaxCapArg) \cup {USIZE_MAX} : VecReserveCall(additional)
    \/ VecDrop
    \/ \E r \in DrainRanges : VecDrain(r[1], r[2])
    \/ DrainNext
    \/ DrainNextBack
    \/ DrainDropStep
    \/ DrainDropShift
    \/ DrainDropSetLen
    \/ DrainForget

Next ==
    \/ NextCore
    \/ \E k \in 0..MaxElems, mode \in {"exact", "low", "zero"} : VecExtend(k, mode)
    \/ VecClone
    \/ CloneDrop
    \/ \E needs \in 0..MaxElems : VecExtendFromSlice(needs)
    \/ \E source_len \in 0..MaxElems : VecCloneFrom(source_len)

\* Pushes, pops, clear, drains and the MyVec's destruction alone.
NextSeq ==
    \/ VecPush
    \/ VecPop
    \/ VecClear
    \/ VecDrop
    \/ \E r \in DrainRanges : VecDrain(r[1], r[2])
    \/ DrainNext
    \/ DrainNextBack
    \/ DrainDropStep
    \/ DrainDropShift
    \/ DrainDropSetLen
    \/ DrainForget

\* Every operation on a live MyVec, on few elements.
NextAll ==
    \/ NextCore
    \/ \E k \in 0..MaxAllElems, mode \in {"exact", "low", "zero"} : VecExtend(k, mode)
    \/ \E needs \in 0..MaxAllElems : VecExtendFromSlice(needs)
    \/ \E source_len \in 0..MaxAllElems : VecCloneFrom(source_len)

\* Extending from iterators, among pushes, pops, clear and reserve.
NextExt ==
    \/ \E k \in 0..MaxExtElems, mode \in {"exact", "low", "zero"} : VecExtend(k, mode)
    \/ VecPush
    \/ VecPop
    \/ VecClear
    \/ \E additional \in 0..MaxCapArg : VecReserveCall(additional)
    \/ VecDrop

\* Pushes, pops and clear with destructors that may panic.
NextDtor ==
    \/ VecPush
    \/ VecPop
    \/ ClearBegin
    \/ \E panics \in BOOLEAN : ClearDropStep(panics)
    \/ ClearEnd
    \/ VecDrop

\* A MyVec that is filled, drained and turned into an IntoIter; nothing
\* is forgotten.
NextIter ==
    \/ VecPush
    \/ VecPop
    \/ \E index \in 0..len : VecRemove(index)
    \/ VecClear
    \/ \E additional \in 0..MaxCapArg : VecReserveCall(additional)
    \/ VecDrop
    \/ \E r \in DrainRanges : VecDrain(r[1], r[2])
    \/ DrainNext
    \/ DrainNextBack
    \/ DrainDropStep
    \/ DrainDropShift
    \/ DrainDropSetLen
    \/ VecIntoIter
    \/ IterNext
    \/ IterNextBack
    \/ IterDropElems
    \/ IterDropBuf

\* A MyVec and its clone, each filled, emptied and destroyed while the
\* other lives.
NextClone ==
    \/ VecPush
    \/ VecPop
    \/ \E additional \in 1..MaxCapArg : VecReserveCall(additional)
    \/ VecClear
    \/ VecDrop
    \/ other = NoOther /\ VecClone
    \/ VecSwap
    \/ OtherDrop

\* A MyVec whose elements' destructors may panic while a Drain is
\* destroyed.
NextDrainPanic ==
    \/ VecPush
    \/ VecPop
    \/ VecDrop
    \/ \E r \in DrainRanges : VecDrain(r[1], r[2])
    \/ DrainNext
    \/ DrainNextBack
    \/ DrainDropStep
    \/ DrainDropPanic
    \/ DrainDropShift
    \/ DrainDropSetLen

\* A MyVec of zero-sized elements that is filled to its capacity and
\* destroyed.
NextZst ==
    \/ VecPush
    \/ \E index \in {0, len} : VecInsert(index)
    \/ VecDrop

\* A MyVec of either element size that is filled and emptied, destroyed,
\* or turned into an IntoIter.
NextAnySize ==
    \/ VecPush
    \/ VecPop
    \/ VecClear
    \/ \E additional \in 0..MaxCapArg : VecReserveCall(additional)
    \/ VecDrop
    \/ VecIntoIter
    \/ IterNext
    \/ IterNextBack
    \/ IterDropElems
    \/ IterDropBuf

\* Two MyVecs, each built by pushes, pops, appended slices and reserve,
\* and compared.
NextEq ==
    \/ VecPush
    \/ VecPop
    \/ \E needs \in 1..MaxEqSlice : VecExtendFromSlice(needs)
    \/ \E additional \in 1..MaxCapArg : VecReserveCall(additional)
    \/ \E n \in 0..MaxCapArg : VecSetAside(n)
    \/ VecEqCall
    \/ VecCmpCall

\* slice::range applied to the length of a MyVec that grows and shrinks.
NextRange ==
    \/ VecPush
    \/ VecPop
    \/ \E lower \in RangeArgs, upper \in RangeArgs : SliceRangeCall(lower, upper)

\* Requests for memory that are too large or that the allocator refuses.
NextAlloc ==
    \/ VecPush
    \/ VecPop
    \/ VecPushAllocFails
    \/ \E additional \in (0..MaxCapArg) \cup {USIZE_MAX} : VecReserveCall(additional)
    \/ \E additional \in 1..MaxCapArg : VecReserveAllocFails(additional)
    \/ \E capacity \in (0..MaxCapArg) \cup {ISIZE_MAX}, null \in BOOLEAN :
          VecWithCapacityCall(capacity, null)

\* A MyVec and an InplaceVec<N> given the same calls: each call of the MyVec
\* is made on the InplaceVec before the MyVec's next.
NextPair ==
    \/ \E n \in 0..MaxInplaceN : IpNew(n)
    \/ Synced /\ VecPush
    \/ Synced /\ VecPop
    \/ Synced /\ \E index \in 0..len : VecInsert(index)
    \/ Synced /\ VecDrop
    \/ Synced /\ \E r \in DrainRanges :
                    RangeValid(r[1], r[2], len) /\ VecDrain(r[1], r[2])
    \/ Synced /\ DrainNext
    \/ Synced /\ DrainNextBack
    \/ Synced /\ DrainDropStep
    \/ Synced /\ DrainDropShift
    \/ Synced /\ DrainDropSetLen
    \/ Synced /\ VecIntoIter
    \/ Synced /\ IterNext
    \/ Synced /\ IterNextBack
    \/ Synced /\ IterDropElems
    \/ Synced /\ IterDropBuf
    \/ IpCall

Spec == Init /\ [][Next]_vars

SpecAlloc == InitAlloc /\ [][NextAlloc]_vars

\* A MyVec that is converted into a native Vec and back.
NextConv ==
    \/ VecPush
    \/ VecPop
    \/ \E additional \in 0..MaxCapArg : VecReserveCall(additional)
    \/ VecDrop
    \/ VecIntoNative
    \/ VecFromNative
    \/ NativeDrop

SpecConv == InitConv /\ [][NextConv]_vars

SpecConvSized == InitConvSized /\ [][NextConv]_vars

SpecPair == InitPair /\ [][NextPair]_vars

SpecRange == InitRange /\ [][NextRange]_vars

SpecEq == InitEq /\ [][NextEq]_vars

SpecAnySize == InitAnySize /\ [][NextAnySize]_vars

SpecZst == InitZst /\ [][NextZst]_vars

SpecDrainPanic == InitDtor /\ [][NextDrainPanic]_vars

SpecClone == InitClone /\ [][NextClone]_vars

SpecIter == InitIter /\ [][NextIter]_vars

SpecDtor == InitDtor /\ [][NextDtor]_vars

SpecExt == InitExt /\ [][NextExt]_vars

SpecAll == InitAll /\ [][NextAll]_vars

SpecCore == Init /\ [][NextCore]_vars

SpecSeq == InitSeq /\ [][NextSeq]_vars

\* ================================================================ claims
Reverse(s) == [i \in 1..Len(s) |-> s[Len(s) + 1 - i]]

\* Of the last drain(a..b): the original elements at [a, b), and those at
\* [0, a) followed by [b, n).
Drained == SubSeq(pre.elems, last.idx + 1, last.end)
Kept == SubSeq(pre.elems, 1, last.idx) \o SubSeq(pre.elems, last.end + 1, pre.len)

\* The capacity push and insert leave: grown iff the buffer was full.
GrownCap == IF pre.len = pre.cap
            THEN (IF pre.cap = 0 THEN 1 ELSE 2 * pre.cap)
            ELSE pre.cap

\* C1: in every state reachable by the safe public operations,
\* 0 <= length <= capacity (of the MyVec, and of a clone it returned).
C1_LenWithinCap ==
    /\ 0 <= len /\ len <= cap
    /\ 0 <= other.len /\ other.len <= other.cap

\* C2: drain(a..b) iterated to completion by next yields exactly the
\* original elements at [a, b) in order; after the Drain is destroyed the
\* MyVec holds the original [0, a) followed by [b, n), length a + (n - b).
C2_DrainYieldsRangeAndClosesGap ==
    /\ (pc = "drain" /\ yb = <<>> /\ drain.start = drain.end) => yf = Drained
    /\ (last.op = "drain_drop" /\ yb = <<>> /\ dd = <<>>) =>
          /\ yf = Drained
          /\ Elems = Kept
          /\ len = last.idx + (pre.len - last.end)
          /\ bad = {}

\* The scenario of the specification: 1,2,3,4,5, drain(2..4) yields 3,4
\* and leaves 1,2,5.
C2_Witness ==
    /\ last.op = "drain_drop" /\ yb = <<>> /\ dd = <<>>
    /\ pre.elems = <<<<1, 1>>, <<2, 2>>, <<3, 3>>, <<4, 4>>, <<5, 5>>>>
    /\ last.idx = 2 /\ last.end = 4
    /\ yf = <<<<3, 3>>, <<4, 4>>>>
    /\ Elems = <<<<1, 1>>, <<2, 2>>, <<5, 5>>>>

\* C3 as stated: once a Drain was forgotten leaving elements behind, the
\* MyVec's length is 0 in every later state.
C3_LenZeroFromThenOn == leaked # {} => len = 0

\* C3, amended: when a Drain is forgotten after any number of yields the
\* MyVec's length is 0, from then on the length counts only elements
\* added afterwards, and no element that was in the MyVec when the drain
\* began is read, yielded or destroyed again by a later operation or by
\* the MyVec's destruction.
C3_ForgottenDrainLeaksSafely ==
    /\ last.op = "drain_forget" => len = 0 /\ pc = "live"
    /\ pc \notin {"dropped", "ub"} => RangeIds(mem, 0, len) \cap (leaked \cup gone) = {}
    /\ bad = {}

\* The MyVec was destroyed holding new elements, after a Drain that had
\* yielded was forgotten with elements left.
C3_Witness ==
    /\ last.op = "drop" /\ pc = "dropped"
    /\ leaked # {}
    /\ \E i \in gone : \E j \in leaked : i < j
    /\ pre.len > 0

\* C4: a Drain over [a, b) destroyed after any interleaving of next and
\* next_back destroys each element of [a, b) not yet yielded exactly once,
\* and leaves the MyVec equal to the original [0, a) followed by [b, n).
C4_DrainDropDestroysRestOnce ==
    /\ pc \in {"drain", "dropping", "shifted"} =>
          yf \o dd = SubSeq(Drained, 1, Len(yf) + Len(dd))
    /\ last.op = "drain_drop" =>
          /\ yf \o dd \o Reverse(yb) = Drained
          /\ Elems = Kept
          /\ len = last.idx + (pre.len - last.end)
          /\ bad = {}

C4_Witness ==
    /\ last.op = "drain_drop"
    /\ yf # <<>> /\ yb # <<>> /\ dd # <<>>
    /\ last.idx > 0 /\ last.end < pre.len

\* C5: the length is 0 from the return of drain until the Drain's
\* destructor sets it, and it is set only there, after the tail was
\* shifted into place.
C5_LenZeroUntilDrainDrop ==
    [][/\ pc' \in {"drain", "dropping", "shifted"} => len' = 0
       /\ (pc \in {"drain", "dropping", "shifted"} /\ len' # 0) =>
             /\ pc = "shifted"
             /\ Slots(mem, 0, len') = Kept
             /\ len' = last.idx + (pre.len - last.end)]_vars

C5_Witness ==
    /\ pc = "shifted" /\ len = 0
    /\ drain.before_len > 0 /\ drain.after_len > 0
    /\ yf # <<>> /\ dd # <<>>

\* C6: k pushes followed by k pops return the pushed values in reverse
\* order and leave the element sequence as it was before the pushes (and
\* so for the last j <= k of the pushes after j pops).
C6_PushPopRoundTrip ==
    LET k == Len(pp.pushed)
        j == Len(pp.popped)
    IN j > 0 =>
          /\ j <= k
          /\ pp.popped = Reverse(SubSeq(pp.pushed, k - j + 1, k))
          /\ Elems = pp.base \o SubSeq(pp.pushed, 1, k - j)

C6_Witness ==
    /\ Len(pp.pushed) = 3 /\ Len(pp.popped) = 3
    /\ pp.base # <<>>
    /\ Elems = pp.base

\* C7: insert(i, v) followed by remove(i) returns v and leaves the element
\* sequence as it was before the insert.
C7_InsertRemoveInverse ==
    (last.op = "remove" /\ prev.op = "insert" /\ last.idx = prev.idx) =>
        /\ last.ok
        /\ last.ret = <<prev.val>>
        /\ Elems = prev.base
        /\ bad = {}

C7_Witness ==
    /\ last.op = "remove" /\ prev.op = "insert" /\ last.idx = prev.idx
    /\ 0 < prev.idx /\ prev.idx < Len(prev.base)

\* C8: insert(i, v) with i <= n leaves e[0..i), v, e[i..n), length n + 1,
\* the buffer grown first iff it was full; at i = n this is what push(v)
\* leaves.
C8_InsertPlacesElement ==
    /\ (last.op = "insert" /\ last.idx <= pre.len) =>
          /\ last.ok
          /\ Elems = SubSeq(pre.elems, 1, last.idx) \o <<last.val>>
                     \o SubSeq(pre.elems, last.idx + 1, pre.len)
          /\ len = pre.len + 1
          /\ cap = GrownCap
          /\ pre.len = pre.cap => cap > pre.cap
          /\ bad = {}
    /\ (last.op = "push" /\ last.ok) =>
          /\ Elems = SubSeq(pre.elems, 1, pre.len) \o <<last.val>>
          /\ len = pre.len + 1
          /\ cap = GrownCap

C8_Witness ==
    /\ last.op = "insert" /\ last.ok
    /\ 0 < last.idx /\ last.idx < pre.len
    /\ pre.len = pre.cap

\* C9: remove(i) with i < n returns e[i] and leaves e[0..i), e[i+1..n),
\* length n - 1, capacity unchanged.
C9_RemoveTakesElement ==
    (last.op = "remove" /\ last.idx < pre.len) =>
        /\ last.ok
        /\ last.ret = <<pre.elems[last.idx + 1]>>
        /\ Elems = SubSeq(pre.elems, 1, last.idx)
                   \o SubSeq(pre.elems, last.idx + 2, pre.len)
        /\ len = pre.len - 1
        /\ cap = pre.cap
        /\ bad = {}

C9_Witness ==
    /\ last.op = "remove" /\ last.ok
    /\ 0 < last.idx /\ last.idx < pre.len - 1

\* C10: insert with index > length, remove with index >= length and drain
\* with an invalid range panic, and at the panic length, capacity and
\* elements are what they were before the call.
C10_PanicsLeaveStateUntouched ==
    /\ (last.op = "insert" /\ last.idx > pre.len) => ~last.ok
    /\ (last.op = "remove" /\ last.idx >= pre.len) => ~last.ok
    /\ (last.op \in {"drain", "drain_drop", "drain_forget"} /\ ~last.valid) =>
          ~last.ok /\ last.op = "drain"
    /\ (last.op \in {"insert", "remove", "drain"} /\ ~last.ok) =>
          /\ Snapshot = pre
          /\ pc = "live"
          /\ bad = {}

C10_Witness ==
    /\ last.op = "drain" /\ ~last.ok /\ ~last.valid
    /\ pre.len > 0 /\ Snapshot = pre

\* C11: a push grows the buffer iff length = capacity, stores v at index
\* length and increments the length; the elements at [0, old length) are
\* unchanged and nothing is read or destroyed.
C11_PushFrame ==
    [][(last'.op = "push" /\ last'.ok /\ nextId' # nextId) =>
          /\ (cap' # cap) <=> (len = cap)
          /\ cap' >= cap
          /\ len' = len + 1
          /\ SlotAt(mem', len) = last'.val
          /\ Slots(mem', 0, len) = Slots(mem, 0, len)
          /\ gone' = gone /\ leaked' = leaked
          /\ bad' = bad]_vars

C11_Witness ==
    /\ last.op = "push" /\ last.ok
    /\ pre.len = pre.cap /\ pre.len >= 2
    /\ cap > pre.cap
    /\ Elems = Append(pre.elems, last.val)

\* C12: pop on an empty MyVec returns None and leaves length and capacity;
\* pop at length n > 0 returns the element at n - 1, sets the length to
\* n - 1 and leaves the elements at [0, n - 1) and the capacity.
C12_PopTakesLast ==
    last.op = "pop" =>
        /\ last.ok
        /\ cap = pre.cap
        /\ bad = {}
        /\ IF pre.len = 0
           THEN last.ret = <<>> /\ len = 0
           ELSE /\ last.ret = <<pre.elems[pre.len]>>
                /\ len = pre.len - 1
                /\ Elems = SubSeq(pre.elems, 1, pre.len - 1)

C12_Witness ==
    /\ last.op = "pop" /\ pre.len >= 2 /\ pre.len < pre.cap
    /\ last.ret = <<pre.elems[pre.len]>>

\* C13: after with_capacity(n), n >= 1, of a sized element type the length
\* is 0 and the capacity n; the capacity is n through the first n pushes,
\* and the (n+1)-th push makes it larger.
C13_WithCapacityThenPushes ==
    /\ last.op = "with_capacity" =>
          last.idx >= 1 /\ len = 0 /\ cap = last.idx
    /\ (pp.cap0 >= 1 /\ pp.popped = <<>>) =>
          LET k == Len(pp.pushed) IN
          /\ pp.base = <<>>
          /\ k <= pp.cap0 => cap = pp.cap0 /\ len = k
          /\ k = pp.cap0 + 1 => cap > pp.cap0 /\ len = k

C13_Witness ==
    /\ pp.cap0 = 2 /\ pp.popped = <<>>
    /\ Len(pp.pushed) = 3
    /\ cap > 2 /\ len = 3

\* C14: no operation on a live MyVec makes the capacity smaller, or the
\* buffer shorter; the buffer goes only with the MyVec.
C14_CapacityNeverShrinks ==
    [][pc' # "dropped" => cap' >= cap /\ Len(mem') >= Len(mem)]_vars

C14_Witness ==
    /\ last.op = "drain_drop"
    /\ pre.len = 2 /\ len = 0
    /\ cap = pre.cap /\ Len(mem) = cap

\* C15: grow on a buffer of a sized element type makes the capacity 1 when
\* it was 0 and twice the old capacity otherwise, and every slot that was
\* initialized keeps its contents (push and insert call it when full).
C15_GrowDoubles ==
    [][(last'.op \in {"push", "insert"} /\ last'.ok /\ nextId' # nextId
        /\ len = cap) =>
          /\ cap' = IF cap = 0 THEN 1 ELSE 2 * cap
          /\ Len(mem') = cap'
          /\ last'.op = "push" => Slots(mem', 0, cap) = Slots(mem, 0, cap)
          /\ last'.op = "insert" =>
                /\ Slots(mem', 0, last'.idx) = Slots(mem, 0, last'.idx)
                /\ Slots(mem', last'.idx + 1, cap - last'.idx)
                       = Slots(mem, last'.idx, cap - last'.idx)]_vars

C15_Witness ==
    /\ last.op = "insert" /\ last.ok /\ last.idx = 1
    /\ pre.len = 2 /\ pre.cap = 2
    /\ cap = 4 /\ len = 3

\* C16: after reserve(additional) returns, capacity >= length + additional,
\* length and elements are unchanged, and the capacity is unchanged if it
\* already sufficed and exactly length + additional otherwise.
C16_ReserveExact ==
    (last.op = "reserve" /\ last.ok) =>
        /\ cap >= pre.len + last.idx
        /\ len = pre.len
        /\ Elems = pre.elems
        /\ pre.cap >= pre.len + last.idx => cap = pre.cap
        /\ pre.cap < pre.len + last.idx => cap = pre.len + last.idx
        /\ Len(mem) = cap
        /\ bad = {}

C16_Witness ==
    /\ last.op = "reserve" /\ last.ok
    /\ pre.len >= 1 /\ pre.cap > pre.len
    /\ cap = pre.len + last.idx /\ cap > pre.cap
    /\ Elems = pre.elems

\* The values of the elements at [from, from + n), and of the slice or
\* source vector of n elements a caller passes.
ValuesAt(from, n) == [i \in 1..n |-> ValOf(SlotAt(mem, from + i - 1))]
SliceVals(n) == [i \in 1..n |-> SliceVal(i)]

\* C17: extend_from_slice(s) on any MyVec, also one with spare room
\* smaller than s, leaves the old elements followed by the elements of s,
\* length = old length + |s|, every element written below the capacity.
C17_ExtendFromSliceAppends ==
    last.op = "extend_from_slice" =>
        /\ last.ok
        /\ len = pre.len + last.idx
        /\ len <= cap
        /\ Slots(mem, 0, pre.len) = pre.elems
        /\ ValuesAt(pre.len, last.idx) = SliceVals(last.idx)
        /\ bad = {}

\* C18: y.clone_from(&x) for any x and y, also with
\* y.length < y.capacity < x.length, leaves y equal to x, writes every
\* element below y's capacity and destroys each former element of y once.
C18_CloneFromCopies ==
    last.op = "clone_from" =>
        /\ last.ok
        /\ len = last.idx
        /\ len <= cap
        /\ ValuesAt(0, last.idx) = SliceVals(last.idx)
        /\ {IdOf(pre.elems[i]) : i \in 1..pre.len} \subseteq gone
        /\ bad = {}

\* The k elements an iterator yielded last, in iteration order.
Yielded(k) == [i \in 1..k |-> <<nextId - k + i - 1, nextId - k + i - 1>>]

\* C19: extend from an iterator, and collecting one, append every yielded
\* element in iteration order whatever the size hint (exact, low, zero):
\* old elements then the yielded ones, each write below the capacity;
\* collecting an empty iterator gives length 0 and capacity 0.
C19_ExtendAndCollect ==
    /\ (last.op = "extend" /\ last.ok) =>
          /\ len = pre.len + last.idx
          /\ Elems = pre.elems \o Yielded(last.idx)
          /\ len <= cap /\ cap >= pre.cap
          /\ bad = {}
    /\ last.op = "from_iter" =>
          /\ len = last.idx
          /\ Elems = Yielded(last.idx)
          /\ len <= cap
          /\ last.idx = 0 => cap = 0
          /\ bad = {}

C19_Witness ==
    /\ last.op = "extend" /\ last.ok /\ last.idx = 2
    /\ pre.len = 1 /\ pre.cap = 1
    /\ len = 3 /\ cap >= 3

\* C20: clear() sets the length to 0 before any destructor runs, destroys
\* each former element at most once and leaves the capacity; when a
\* destructor panics part-way the length is already 0, and the MyVec's
\* later destruction destroys no element again.
C20_ClearIsPanicSafe ==
    /\ pc = "clearing" => len = 0 /\ cap = pre.cap
    /\ (pc = "clearing" /\ clr.next = 0) => dd = <<>>
    /\ pc \in {"clearing", "aborted"} => dd = SubSeq(pre.elems, 1, Len(dd))
    /\ (last.op = "clear" /\ pc = "live") =>
          /\ len = 0 /\ cap = pre.cap
          /\ dd = pre.elems
    /\ (last.op = "drop" /\ prev.op = "clear_panic") =>
          pre.len = 0 /\ pc = "dropped"
    /\ bad = {}

\* The MyVec was destroyed after a clear() of three elements in which a
\* destructor panicked.
C20_Witness ==
    /\ last.op = "drop" /\ pc = "dropped"
    /\ prev.op = "clear_panic" /\ Len(prev.base) = 3
    /\ bad = {}

\* Every element created so far.
Stored == 1..(nextId - 1)

\* C21: when nothing is forgotten (leaked is empty), once the MyVec and every iterator derived
\* from it are destroyed, every element ever stored has been handed out by
\* value or destroyed, exactly once in all (a second read or destroy of a
\* moved-out element, and any read outside [0, len), is recorded in bad).
C21_DropAccounting ==
    /\ bad = {}
    /\ (pc = "dropped" /\ leaked = {}) => Stored \subseteq gone

\* An IntoIter over three elements yielded one from each end and was
\* destroyed with its buffer.
C21_Witness ==
    /\ pc = "dropped" /\ last.op = "iter_drop"
    /\ pre.len = 3 /\ Len(yf) = 1 /\ Len(yb) = 1 /\ Len(dd) = 1
    /\ Stored \subseteq gone
    /\ bad = {}

\* C22: destroying an IntoIter that yielded k of its n elements, from either
\* end in any order, destroys exactly the n - k elements between the two
\* cursors, each once and none of the yielded ones, and the buffer is
\* released only after that.
C22_IntoIterDrop ==
    /\ pc \in {"iter", "iter_drop"} => heap.frees = 0
    /\ last.op = "iter_drop" =>
          /\ pc \in {"iter_drop", "dropped"}
          /\ pre.elems = yf \o dd \o Reverse(yb)
          /\ Len(dd) = pre.len - (Len(yf) + Len(yb))
          /\ \A i \in 1..Len(dd) :
                /\ \A j \in 1..Len(yf) : IdOf(dd[i]) # IdOf(yf[j])
                /\ \A j \in 1..Len(yb) : IdOf(dd[i]) # IdOf(yb[j])
          /\ bad = {}
    /\ (last.op = "iter_drop" /\ pc = "dropped") =>
          heap = IF pre.cap # 0 THEN [owner |-> "freed", frees |-> 1] ELSE NoHeap

\* An IntoIter over three elements yielded the first and the last, then was
\* destroyed: the middle element was destroyed and the buffer released.
C22_Witness ==
    /\ last.op = "iter_drop" /\ pc = "dropped"
    /\ pre.len = 3 /\ Len(yf) = 1 /\ Len(yb) = 1
    /\ dd = <<pre.elems[2]>>
    /\ heap.frees = 1

\* C23: the allocation has one owner at a time, the MyVec or, after
\* into_iter, the IntoIter; it is released exactly once, when that owner is
\* destroyed, and never for a capacity of 0 or a zero-sized element type.
C23_SingleOwner ==
    /\ heap.frees <= 1
    /\ bad = {}
    /\ (elem_size = 0 \/ cap = 0) => heap = NoHeap
    /\ (elem_size # 0 /\ cap # 0) =>
          heap = IF pc \in {"iter", "iter_drop"}
                 THEN [owner |-> "iter", frees |-> 0]
                 ELSE IF pc = "dropped"
                 THEN [owner |-> "freed", frees |-> 1]
                 ELSE [owner |-> "vec", frees |-> 0]

\* A two-slot buffer holding two elements was handed to an IntoIter and
\* released when the IntoIter was destroyed.
C23_Witness ==
    /\ elem_size = 2 /\ cap = 2 /\ pre.len = 2
    /\ last.op = "iter_drop" /\ pc = "dropped"
    /\ heap = [owner |-> "freed", frees |-> 1]

\* The region the live iterator was created over, and its RawValIter.
Region == IF pc = "drain" THEN Drained ELSE pre.elems
Cursors == IF pc = "drain" THEN [start |-> drain.start, end |-> drain.end]
           ELSE into

\* C24: over a region of n elements, under any interleaving of next and
\* next_back of an IntoIter or a Drain, the i-th next yields the element at
\* index i - 1 and the j-th next_back the one at index n - j, no element is
\* yielded twice, and next and next_back return None exactly when the
\* front and back yields sum to n.
C24_IterOrder ==
    /\ pc \in {"iter", "drain"} =>
          LET n == Len(Region) IN
          /\ Len(yf) + Len(yb) <= n
          /\ \A i \in 1..Len(yf) : yf[i] = Region[i]
          /\ \A j \in 1..Len(yb) : yb[j] = Region[n - j + 1]
          /\ RawValIterNext(Cursors, elem_size).some <=> Len(yf) + Len(yb) < n
          /\ RawValIterNextBack(Cursors, elem_size).some <=> Len(yf) + Len(yb) < n
    /\ (pc = "iter" /\ last.op \in {"iter_next", "iter_next_back"}
           /\ last.ret = <<>>) => Len(yf) + Len(yb) = pre.len
    /\ bad = {}

\* An IntoIter over three elements yielded two from the front and one from
\* the back, and the next call returned None.
C24_Witness ==
    /\ pc = "iter" /\ pre.len = 3
    /\ Len(yf) = 2 /\ Len(yb) = 1
    /\ last.op = "iter_next" /\ last.ret = <<>>

\* C25: at every point of an iteration over n elements, len() and both
\* bounds of size_hint() of the RawValIter are n minus the number of
\* elements yielded so far, for a zero-sized element type as well.
C25_ExactSizeHint ==
    pc = "iter" =>
        LET left == pre.len - (Len(yf) + Len(yb)) IN
        /\ RawValIterLen(into, elem_size) = left
        /\ RawValIterSizeHint(into, elem_size) = <<left, <<"Some", left>>>>

\* An iterator over three zero-sized elements that yielded one from the
\* back reports two remaining.
C25_Witness ==
    /\ pc = "iter" /\ elem_size = 0
    /\ pre.len = 3 /\ yf = <<>> /\ Len(yb) = 1
    /\ RawValIterSizeHint(into, elem_size) = <<2, <<"Some", 2>>>>

\* C26: for a zero-sized element type the capacity is isize::MAX from
\* construction (new, or with_capacity(n) for any n) and after every
\* operation, nothing is ever allocated, reallocated or released, and push,
\* pop (of a non-empty MyVec) and clear change the length by +1, by -1 and
\* to 0.
C26_ZstSentinel ==
    [][elem_size = 0 =>
          /\ cap = ISIZE_MAX /\ cap' = ISIZE_MAX
          /\ heap = NoHeap /\ heap' = NoHeap
          /\ mem = <<>> /\ mem' = <<>>
          /\ bad' = {}
          /\ VecPush => len' = len + 1 /\ last'.ok
          /\ (VecPop /\ len > 0) => len' = len - 1 /\ Len(last'.ret) = 1
          /\ VecClear => len' = 0]_vars

\* A MyVec of a zero-sized type got three elements and was cleared when it
\* held two of them.
C26_Witness ==
    /\ elem_size = 0 /\ cap = ISIZE_MAX
    /\ last.op = "clear" /\ pre.len = 2 /\ len = 0
    /\ nextId = 4
    /\ heap = NoHeap

\* Whether the values in slots [0, len) of a come before those of b in
\* lexicographic order.
LexLess(a, b) ==
    \E k \in 0..a.len :
        /\ k <= b.len
        /\ \A i \in 0..(k - 1) : ValOf(SlotAt(a.mem, i)) = ValOf(SlotAt(b.mem, i))
        /\ \/ k = a.len /\ k < b.len
           \/ k < a.len /\ k < b.len
                 /\ ValOf(SlotAt(a.mem, k)) < ValOf(SlotAt(b.mem, k))

\* C27: two MyVecs compare equal iff they have the same length and the same
\* value at every index below it, and they are ordered by those values
\* alone: the capacities and the operations that built them play no part.
C27_EqOverElemsOnly ==
    /\ last.op = "eq" =>
          (last.ret[1] <=>
              /\ len = other.len
              /\ \A i \in 0..(len - 1) :
                    ValOf(SlotAt(mem, i)) = ValOf(SlotAt(other.mem, i)))
    /\ last.op = "cmp" =>
          /\ last.ret[1] = "Less" <=> LexLess(Self, other)
          /\ last.ret[1] = "Greater" <=> LexLess(other, Self)
          /\ last.ret[1] \in {"Less", "Equal", "Greater"}

\* Two MyVecs of two equal elements and different capacities compared
\* equal.
C27_Witness ==
    /\ last.op = "eq" /\ last.ret = <<TRUE>>
    /\ len = 2 /\ other.len = 2
    /\ cap # other.cap
    /\ pc = "live"

\* The start and end a pair of bounds asks for, given the length n.
AskedStart(lower) ==
    CASE lower[1] = "Unbounded" -> 0
      [] lower[1] = "Included" -> lower[2]
      [] lower[1] = "Excluded" -> lower[2] + 1
AskedEnd(upper, n) ==
    CASE upper[1] = "Unbounded" -> n
      [] upper[1] = "Included" -> upper[2] + 1
      [] upper[1] = "Excluded" -> upper[2]

\* C28: slice::range, given bounds and the length n, returns s..e with
\* 0 <= s <= e <= n, where an unbounded start is 0, an unbounded end n, an
\* inclusive end end + 1 and an exclusive start start + 1; it panics
\* exactly when that start exceeds that end, that end exceeds n, or a
\* bound + 1 overflows.
C28_RangeNormalized ==
    last.op = "range" =>
        LET s == AskedStart(last.ret[1])
            e == AskedEnd(last.ret[2], len)
            panicked == last.ret[3]
        IN
        /\ panicked <=> (s > e \/ e > len \/ s > USIZE_MAX \/ e > USIZE_MAX)
        /\ ~panicked =>
              /\ last.ret[4] = s /\ last.ret[5] = e
              /\ 0 <= s /\ s <= e /\ e <= len

\* range((Excluded(0), Included(1)), ..2) returned 1..2.
C28_Witness ==
    /\ last.op = "range" /\ len = 2
    /\ last.ret = <<Excluded(0), Included(1), FALSE, 1, 2>>

\* Whether the last call asked for more bytes than isize::MAX: grow for
\* twice the capacity, reserve for len + additional, with_capacity for its
\* argument.
Oversize ==
    CASE last.op = "push" ->
            /\ pre.len = pre.cap /\ pre.cap # 0
            /\ 2 * pre.cap * elem_size > ISIZE_MAX
      [] last.op = "reserve" ->
            \/ pre.len + last.idx > ISIZE_MAX
            \/ /\ pre.len + last.idx > pre.cap
               /\ (pre.len + last.idx) * elem_size > ISIZE_MAX
      [] last.op = "with_capacity" ->
            elem_size # 0 /\ last.idx > 0 /\ last.idx * elem_size > ISIZE_MAX
      [] OTHER -> FALSE

AllocCalls == {"push", "reserve", "with_capacity"}

\* C29 as stated: every failed request for memory, too large or refused by
\* the allocator, ends in process termination.
C29_EveryFailureIsFatal ==
    (last.op \in AllocCalls /\ ~last.ok) => pc = "aborted"

\* C29, amended: a request for more than isize::MAX bytes panics, the
\* panic unwinds and the MyVec is as it was; a request the allocator
\* refuses terminates the process; nothing else fails.
C29_OversizePanicsRefusalAborts ==
    /\ Oversize => /\ ~last.ok
                   /\ pc = "live"
                   /\ Snapshot = pre
    /\ (last.op \in AllocCalls /\ ~last.ok /\ ~Oversize) => pc = "aborted"
    /\ pc = "aborted" => (last.op \in AllocCalls /\ ~last.ok /\ ~Oversize)
    /\ bad = {}

\* The third push asked grow for 4 elements of 8 bytes, more than
\* isize::MAX: it panicked and the MyVec still holds its two elements.
C29_Witness ==
    /\ last.op = "push" /\ ~last.ok /\ Oversize
    /\ pc = "live" /\ len = 2 /\ cap = 2

\* An allocation the allocator refused ended the process.
C29_WitnessAbort ==
    /\ last.op = "reserve" /\ ~last.ok /\ ~Oversize
    /\ pc = "aborted"

\* What clear() leaves of the MyVec it was called on: no element, the same
\* capacity, every former element moved out or destroyed.
Cleared ==
    /\ pc = "live"
    /\ len = 0
    /\ cap = pre.cap
    /\ \A i \in 1..pre.len : IdOf(pre.elems[i]) \in gone
    /\ Slots(mem, 0, pre.len) = pre.elems

\* C30: drain over 0..len followed by the Drain's destruction leaves what
\* clear() leaves: length 0, the capacity unchanged, and every element
\* yielded or destroyed exactly once.
C30_FullDrainIsClear ==
    /\ last.op = "clear" => Cleared
    /\ (last.op = "drain_drop" /\ last.idx = 0 /\ last.end = pre.len) =>
          /\ Cleared
          /\ yf \o dd \o Reverse(yb) = pre.elems
    /\ bad = {}

\* A Drain over all three elements of a MyVec yielded one and was
\* destroyed.
C30_Witness ==
    /\ last.op = "drain_drop" /\ last.idx = 0 /\ last.end = 3 /\ pre.len = 3
    /\ Len(yf) = 1 /\ Len(dd) = 2
    /\ len = 0 /\ cap = pre.cap

\* C31: drain(a..a) with a <= n yields nothing, and once the Drain is
\* destroyed the length, the capacity and the elements are what they were
\* before the drain, with no element destroyed.
C31_EmptyDrainIsNoOp ==
    /\ (pc = "drain" /\ last.idx = last.end) =>
          /\ yf = <<>> /\ yb = <<>>
          /\ ~RawValIterNext(Cursors, elem_size).some
          /\ ~RawValIterNextBack(Cursors, elem_size).some
    /\ (last.op = "drain_drop" /\ last.idx = last.end) =>
          /\ pc = "live"
          /\ yf = <<>> /\ yb = <<>> /\ dd = <<>>
          /\ len = pre.len /\ cap = pre.cap
          /\ Elems = pre.elems
          /\ \A i \in 1..pre.len : IdOf(pre.elems[i]) \notin gone
          /\ bad = {}

\* drain(1..1) on a MyVec of three elements, the Drain destroyed.
C31_Witness ==
    /\ last.op = "drain_drop" /\ last.idx = 1 /\ last.end = 1
    /\ pre.len = 3 /\ len = 3
    /\ Elems = pre.elems

\* C32: a conversion between MyVec and the native Vec, in either
\* direction, hands over the pointer, the length and the capacity: the
\* result has the length, the capacity and the elements of the source, no
\* element is copied or destroyed, and the buffer is not released.
C32_ConversionKeepsTriple ==
    /\ last.op = "into_vec" =>
          /\ pc = "native"
          /\ other.len = pre.len
          /\ NativeCapacity(other.cap, elem_size) = pre.cap
          /\ Slots(other.mem, 0, other.len) = pre.elems
          /\ \A i \in 1..pre.len : IdOf(pre.elems[i]) \notin gone \ {0}
          /\ heap.frees = 0
    /\ last.op = "from_vec" =>
          /\ pc = "live"
          /\ len = pre.len
          /\ cap = pre.cap
          /\ Elems = pre.elems
          /\ \A i \in 1..pre.len : IdOf(pre.elems[i]) \notin gone \ {0}
          /\ heap.frees = 0
    /\ heap.frees <= 1
    /\ bad = {}

\* A MyVec of two elements and capacity 2 came back from a native Vec.
C32_Witness ==
    /\ last.op = "from_vec" /\ elem_size = 2
    /\ len = 2 /\ cap = 2 /\ Elems = pre.elems
    /\ heap = [owner |-> "vec", frees |-> 0]

\* C33: an InplaceVec<N> never grows.  Its capacity is N in every state and
\* its buffer has N slots, its length never exceeds N, and a push or an
\* insert made when the length equals N panics and leaves the length and
\* the contents as they were.
C33_InplaceNeverGrows ==
    [][/\ Paired =>
            /\ InplaceCapacity(other') = InplaceCapacity(other)
            /\ Len(other'.mem) = InplaceCapacity(other)
            /\ other.len <= InplaceCapacity(other)
            /\ other'.len <= InplaceCapacity(other)
       /\ (\E n \in 0..MaxInplaceN : IpNew(n)) =>
            /\ other'.len = 0
            /\ Len(other'.mem) = InplaceCapacity(other')
       /\ (/\ IpCall /\ last.op \in {"push", "insert"}
           /\ other.len = InplaceCapacity(other)) =>
            /\ ~other'.ok
            /\ other'.len = other.len
            /\ other'.mem = other.mem
            /\ other'.bad = {}]_vars

C33_Witness ==
    /\ Diverged /\ ~other.ok
    /\ last.op = "push" /\ last.ok
    /\ InplaceCapacity(other) = 2 /\ other.len = 2 /\ len = 3

\* C34: in every state of a buffer of elements that are not zero-sized,
\* capacity * element size is at most isize::MAX, so that twice the capacity
\* fits the machine word; a push whose grow, or a reserve, that would take
\* the capacity beyond that fails, and the capacity stays what it was.
C34_CapacityBytesBounded ==
    /\ elem_size # 0 =>
          /\ cap * elem_size <= ISIZE_MAX
          /\ 2 * cap <= USIZE_MAX
          /\ Len(mem) = cap
    /\ (/\ last.op = "push" /\ pre.len = pre.cap /\ pre.cap # 0
        /\ 2 * pre.cap * elem_size > ISIZE_MAX) =>
          ~last.ok /\ cap = pre.cap /\ len = pre.len
    /\ (/\ last.op = "reserve" /\ pre.len + last.idx > pre.cap
        /\ (pre.len + last.idx) * elem_size > ISIZE_MAX) =>
          ~last.ok /\ cap = pre.cap /\ len = pre.len
    /\ (last.op \in {"push", "reserve", "with_capacity"} /\ ~last.ok) =>
          cap = pre.cap

C34_Witness ==
    /\ last.op = "push" /\ ~last.ok /\ pc = "live"
    /\ elem_size = 8 /\ pre.cap = 2 /\ pre.len = 2 /\ cap = 2 /\ len = 2

\* C35: a push or an insert on a MyVec of zero-sized elements whose length
\* equals its capacity, the sentinel isize::MAX, panics with a capacity
\* overflow and leaves the length and the capacity unchanged.
C35_ZstFullPanics ==
    (/\ elem_size = 0 /\ last.op \in {"push", "insert"}
     /\ pre.len = pre.cap /\ last.idx <= pre.len) =>
        /\ pre.cap = ISIZE_MAX
        /\ RawGrow(pre.cap, <<>>, elem_size).panic
        /\ ~last.ok
        /\ len = pre.len /\ cap = pre.cap
        /\ pc = "live" /\ bad = {}

C35_Witness ==
    /\ elem_size = 0 /\ last.op = "push" /\ ~last.ok
    /\ pre.len = ISIZE_MAX /\ len = ISIZE_MAX /\ cap = ISIZE_MAX

\* C36: given the same pushes (no more than N), the same drain ranges and
\* the same interleaving of next and next_back, an InplaceVec<N> with its
\* index-based Drain and IntoIter yields the same elements in the same
\* order as a MyVec with its pointer-based ones, destroys the same
\* elements, and ends with the same contents and length.
C36_InplaceRefinesMyVec ==
    Synced =>
        /\ bad = {} /\ other.bad = {}
        /\ other.ok = last.ok
        /\ pc = "live" =>
              /\ other.st = "live"
              /\ other.len = len
              /\ Slots(other.mem, 0, other.len) = Elems
        /\ pc \in {"drain", "iter"} =>
              /\ other.st = pc
              /\ other.yf = yf /\ other.yb = yb
              /\ InplaceIterLen(other) = RawValIterLen(Cursors, elem_size)
        /\ last.op = "drain_drop" =>
              other.yf = yf /\ other.yb = yb /\ other.dd = dd
        /\ last.op = "iter_drop" =>
              /\ other.st = "dropped"
              /\ other.yf = yf /\ other.yb = yb /\ other.dd = dd
        /\ last.op = "drop" => other.st = "dropped"
        /\ pc \in {"live", "drain", "iter", "iter_drop", "dropped"} =>
              other.gone = gone

C36_Witness ==
    /\ Synced /\ last.op = "drain_drop" /\ last.idx = 0
    /\ InplaceCapacity(other) = 2 /\ pre.len = 2
    /\ Len(other.yb) = 1 /\ other.yb = yb /\ other.yf = <<>>
    /\ other.len = 1 /\ len = 1
    /\ Slots(other.mem, 0, 1) = Elems

Ids(v) == RangeIds(v.mem, 0, v.len)
Vals(v) == [i \in 1..v.len |-> ValOf(SlotAt(v.mem, i - 1))]

\* C37: clone() gives a new MyVec equal to its source, with a buffer of its
\* own whose capacity is exactly the source's length, and leaves the
\* source's length, capacity and elements as they were; what is later done
\* to either MyVec changes nothing of the other: its length, capacity and
\* elements stay, none of its elements is destroyed, and each buffer is
\* freed once.
C37_CloneIsIndependent ==
    [][/\ VecClone =>
            /\ last'.ok /\ pc' = "cloned"
            /\ VecEq(Self', other')
            /\ Vals(other') = Vals(Self)
            /\ other'.cap = len
            /\ len' = len /\ cap' = cap /\ mem' = mem /\ heap' = heap
            /\ Ids(other') \cap Ids(Self) = {}
            /\ Cardinality(Ids(other')) = len
       /\ (other # NoOther /\ ~VecSwap /\ ~OtherDrop) => other' = other
       /\ OtherDrop => Self' = Self /\ heap' = heap /\ pc' = pc
       /\ VecSwap => /\ Self' = [cap |-> other.cap, len |-> other.len,
                                 mem |-> other.mem]
                     /\ other'.cap = cap /\ other'.len = len
                     /\ other'.mem = mem
       /\ bad' = {}
       /\ heap'.frees <= 1
       /\ other' # NoOther =>
            /\ Ids(other') \cap gone' = {}
            /\ Cardinality(Ids(other')) = other'.len
            /\ pc' = "live" => Ids(other') \cap Ids(Self') = {}
       /\ pc' \in {"live", "cloned"} =>
            /\ Ids(Self') \cap gone' = {}
            /\ Cardinality(Ids(Self')) = len']_vars

C37_Witness ==
    /\ pc = "live" /\ last.op = "pop" /\ last.ok /\ Len(last.ret) = 1
    /\ other # NoOther /\ "heap" \in DOMAIN other
    /\ other.len = 1 /\ other.cap = 2 /\ len = 0 /\ cap = 1
    /\ Ids(other) \cap gone = {}

\* C38: when the destructor of an element not yet yielded panics while the
\* Drain's destructor exhausts the range, the tail is not moved and the
\* length of the MyVec stays 0: every element the MyVec held is moved out,
\* destroyed by the Drain, or leaked, and the later destruction of the
\* MyVec destroys none of them, so that none is destroyed twice.
C38_PanicInDrainDropLeaks ==
    [][/\ DrainDropPanic =>
            /\ len = 0 /\ len' = 0
            /\ mem' = mem /\ cap' = cap
            /\ pc' = "live"
            /\ ~last'.ok
            /\ Cardinality(gone' \ gone) = 1
            /\ \A i \in 1..pre.len :
                  IdOf(pre.elems[i]) \in (gone' \cup leaked')
            /\ \A i \in 1..pre.len :
                  (i <= last.idx \/ i > last.end) =>
                      IdOf(pre.elems[i]) \in leaked'
       /\ VecDrop => (gone' \ gone) \cap leaked = {}
       /\ (VecDrop /\ last.op = "drain_drop" /\ ~last.ok) => gone' = gone
       /\ leaked' \cap gone' = {}
       /\ bad' = {}]_vars

C38_Witness ==
    /\ pc = "dropped" /\ last.op = "drop"
    /\ pre.len = 0 /\ len = 0 /\ nextId = 4
    /\ Cardinality(leaked) = 2 /\ Cardinality(gone) = 1 /\ bad = {}

IterCursors == IF pc \in {"drain", "dropping", "shifted"}
               THEN [start |-> drain.start, end |-> drain.end]
               ELSE into
Iterating == pc \in {"drain", "iter"}
Exhausted == ~RawValIterNext(IterCursors, elem_size).some

\* C39: once next or next_back of an IntoIter or of a Drain has returned
\* None, every later call of either returns None and moves neither cursor:
\* both return None in the same states, a call that returns None leaves the
\* cursors where they were, and no step of an exhausted iterator moves a
\* cursor or yields.
C39_IteratorsAreFused ==
    [][/\ Iterating =>
            LET n == RawValIterNext(IterCursors, elem_size)
                b == RawValIterNextBack(IterCursors, elem_size)
            IN /\ n.some <=> b.some
               /\ ~n.some => /\ n.start = IterCursors.start
                             /\ n.end = IterCursors.end
               /\ ~b.some => /\ b.start = IterCursors.start
                             /\ b.end = IterCursors.end
               /\ ~n.some <=> RawValIterLen(IterCursors, elem_size) = 0
       /\ (Iterating /\ Exhausted /\ (IterNext \/ IterNextBack)) =>
            /\ last'.ret = <<>>
            /\ pc' = pc
       /\ (Iterating /\ Exhausted
           /\ pc' \in {"drain", "dropping", "shifted", "iter", "iter_drop"}) =>
            /\ IterCursors' = IterCursors
            /\ yf' = yf /\ yb' = yb
            /\ gone' = gone
            /\ Iterating' => Exhausted']_vars

C39_Witness ==
    /\ pc = "iter" /\ last.op = "iter_next_back" /\ last.ret = <<>>
    /\ Len(yf) = 2 /\ Len(yb) = 1
    /\ ~RawValIterNext(into, elem_size).some

\* C40: for every Drain, in every state, before_len + the length of the
\* range it was made for + after_len = old_len, so before_len <= old_len -
\* after_len <= old_len: the tail is moved towards lower indices only, the
\* copy of after_len elements reads and writes inside [0, old_len), and the
\* length restored, before_len + after_len, exceeds neither old_len nor the
\* capacity.
C40_DrainBookkeeping ==
    /\ pc \in {"drain", "dropping", "shifted"} =>
          LET range_len == last.end - last.idx
              hole_begin == DrainHoleBegin(drain)
              hole_end == DrainHoleEnd(drain)
          IN /\ last.op = "drain" /\ last.ok
             /\ drain.old_len = pre.len
             /\ drain.before_len + range_len + drain.after_len = drain.old_len
             /\ 0 <= range_len
             /\ drain.before_len <= drain.old_len - drain.after_len
             /\ drain.old_len - drain.after_len <= drain.old_len
             /\ hole_begin = last.idx /\ hole_end = last.end
             /\ hole_begin <= hole_end
             /\ hole_end + drain.after_len <= drain.old_len
             /\ hole_begin + drain.after_len <= drain.old_len
             /\ CopyEvents(mem, hole_end, hole_begin, drain.after_len) = {}
             /\ DrainRestoredLen(drain) <= drain.old_len
             /\ DrainRestoredLen(drain) <= cap
             /\ drain.old_len <= cap
    /\ (last.op = "drain_drop" /\ pc = "live") =>
          /\ len = pre.len - (last.end - last.idx)
          /\ len <= pre.len /\ len <= cap
    /\ bad = {}

C40_Witness ==
    /\ pc = "shifted"
    /\ drain.before_len = 1 /\ drain.after_len = 1 /\ drain.old_len = 3
    /\ last.idx = 1 /\ last.end = 2
    /\ mem[2] = mem[3]

====
